---- MODULE Spec2Model ----
(***************************************************************************)
(* Model of the Algorithmic Impact Assessment record of aia_core.py: the   *)
(* AlgorithmicImpactAssessment object, its mutation methods and the total  *)
(* score / risk category computation.                                      *)
(***************************************************************************)
EXTENDS Integers, Sequences, FiniteSets, TLC

(***************************************************************************)
(* Program constants (aia_core.py)                                         *)
(***************************************************************************)

DIMENSIONS ==
    << "Human Impact",
       "Contestability and Redress",
       "Explainability and Interpretability",
       "Bias and Fairness",
       "Privacy Risk",
       "Data Representativeness",
       "Autonomy and Oversight",
       "Accountability and Auditability",
       "Security and Resilience",
       "Monitoring and Drift",
       "Ethical Considerations",
       "Legal Compliance",
       "Robustness and Reliability" >>

RISK_CATEGORIES ==
    << [lo |-> 0, hi |-> 10, category |-> "Low",
        action |-> "Standard deployment procedures. Routine monitoring. Document AIA. Approval typically by Project/System Owner."],
       [lo |-> 11, hi |-> 25, category |-> "Medium",
        action |-> "Requires documented Mitigation Plan (Section 9). Enhanced monitoring procedures. Requires review/endorsement by [Specify Role, e.g., AI Governance Committee or relevant Senior Manager]. Approval potentially involves Accountable AI Official oversight."],
       [lo |-> 26, hi |-> 40, category |-> "High",
        action |-> "Requires comprehensive Mitigation Plan with clear timelines and owners. Strict oversight and monitoring. Requires formal approval from [Specify Senior Role, e.g., Designated Accountable AI Official, SES Band 1/2]. Limitations on use may be needed."],
       [lo |-> 41, hi |-> 65, category |-> "Severe",
        action |-> "Requires robust Mitigation Plan addressing all significant risks. Requires highest level approval [Specify Executive Role, e.g., Agency Head / Deputy Secretary / Designated Senior Accountable AI Official]. Deployment may be contingent on significant redesign, specific limitations, independent review, or may be prohibited if risks cannot be adequately mitigated."] >>

\* The fallback of _determine_risk_category for a score no range contains.
UndefinedCategory ==
    [category |-> "Undefined", action |-> "Score out of expected range."]

\* The keys of self.dimensions: one per entry of DIMENSIONS.
DimensionNames == { DIMENSIONS[i] : i \in 1..Len(DIMENSIONS) }

(***************************************************************************)
(* Bounds of the model                                                     *)
(***************************************************************************)

\* datetime.datetime.now() is read as one of the instants 0..MaxTime.
MaxTime == 1

\* The classification is applied to the totals -MaxOut .. 65 + MaxOut.
MaxOut == 20

\* add_mitigation_item is called at most MaxAdds times on a record.
MaxAdds == 2

\* Spec makes at most MaxCalls calls on a record.
MaxCalls == 3


(***************************************************************************)
(* Python values                                                           *)
(***************************************************************************)

\* A score argument: its Python type and its numeric value (True is 1).
PyInt(n)   == [kind |-> "int", val |-> n]
PyBool(b)  == [kind |-> "bool", val |-> IF b THEN 1 ELSE 0]
\* A float such as 2.5: val holds its integer part, which no code reads.
PyFloat(n) == [kind |-> "float", val |-> n]

\* isinstance(score, int): bool is a subclass of int.
IsInstanceInt(score) == score.kind \in {"int", "bool"}

\* dict.update(u) applied to the dict d: the keys of u are set, new ones added.
DictUpdate(d, u) ==
    [k \in (DOMAIN d) \cup (DOMAIN u) |-> IF k \in DOMAIN u THEN u[k] ELSE d[k]]

\* The dict {}.
EmptyDict == [k \in {} |-> ""]

\* None; no text argument of the model is this string.
PyNone == "None"

\* bool(v) of a text or None, and of a dict.
Truthy(v) == v # PyNone /\ v # ""
TruthyDict(d) == DOMAIN d # {}

\* list and str arguments of set_metadata.
PyList(seq) == [kind |-> "list", val |-> seq]
PyStr(str)  == [kind |-> "str", val |-> str]

\* The outcome of the last call: the method, how it ended, what it returned.
NoRet == PyNone
Returned(op, ret) == [op |-> op, outcome |-> "ok", ret |-> ret]
Raised(op, exc)   == [op |-> op, outcome |-> exc, ret |-> NoRet]

(***************************************************************************)
(* Calculation methods                                                     *)
(***************************************************************************)

\* sum(dim["score"] for dim in dims.values()), from the i-th value on.
RECURSIVE SumScoresFrom(_, _)
SumScoresFrom(dims, i) ==
    IF i > Len(DIMENSIONS) THEN 0
    ELSE dims[DIMENSIONS[i]].score + SumScoresFrom(dims, i + 1)

\* A total that leaves the first dimension out of the sum.
calculate_total_score_short(dims) ==
    SumScoresFrom(dims, 2)

\* _calculate_total_score: the value it stores in self.total_score.
_calculate_total_score(dims) ==
    SumScoresFrom(dims, 1)

\* The for loop of _determine_risk_category from the i-th table entry on.
RECURSIVE LookupCategoryFrom(_, _)
LookupCategoryFrom(score, i) ==
    IF i > Len(RISK_CATEGORIES) THEN UndefinedCategory
    ELSE IF RISK_CATEGORIES[i].lo <= score /\ score <= RISK_CATEGORIES[i].hi
         THEN [category |-> RISK_CATEGORIES[i].category,
               action   |-> RISK_CATEGORIES[i].action]
         ELSE LookupCategoryFrom(score, i + 1)

\* A lookup whose upper bounds are exclusive (min_score <= score < max_score).
RECURSIVE LookupCategoryExclusiveFrom(_, _)
LookupCategoryExclusiveFrom(score, i) ==
    IF i > Len(RISK_CATEGORIES) THEN UndefinedCategory
    ELSE IF RISK_CATEGORIES[i].lo <= score /\ score < RISK_CATEGORIES[i].hi
         THEN [category |-> RISK_CATEGORIES[i].category,
               action   |-> RISK_CATEGORIES[i].action]
         ELSE LookupCategoryExclusiveFrom(score, i + 1)

determine_risk_category_exclusive(score) ==
    LookupCategoryExclusiveFrom(score, 1)

\* A lookup that clamps instead of falling back to Undefined.
determine_risk_category_clamped(score) ==
    IF score < 0 THEN LookupCategoryFrom(0, 1)
    ELSE IF score > 65 THEN LookupCategoryFrom(65, 1)
    ELSE LookupCategoryFrom(score, 1)

\* _determine_risk_category: the value it stores in self.risk_category.
_determine_risk_category(score) ==
    LookupCategoryFrom(score, 1)

(***************************************************************************)
(* State: the fields of an AlgorithmicImpactAssessment object, the number  *)
(* of identifiers uuid.uuid4() has handed out, the outcome of the last     *)
(* call, and the number of calls made so far where a run bounds it; the    *)
(* users of an AuthManager and the content of its users file; the rows of  *)
(* the table ai_systems and the largest system_id the table ever gave out; *)
(* the session state of each browser session of the application.           *)
(***************************************************************************)

VARIABLES
    assessed_by, referenced_frameworks, assessment_date,
    system_name, agency_name, system_purpose,
    technical_specs, data_details, deployment_context, procurement,
    related_assessments,
    dimensions, total_score, risk_category,
    mitigation_plan,
    approvals, ai_inventory_ref, transparency_statement_link,
    monitoring_plan_ref, review_frequency, next_review_date,
    aia_status, related_assessment_statuses,
    creation_date, last_modified_date,
    aia_version, system_id,
    uuid_count, last, calls,
    users, users_file,
    ai_systems, sqlite_sequence,
    sessions

metaVars    == << assessed_by, referenced_frameworks, assessment_date >>
descVars    == << system_name, agency_name, system_purpose, technical_specs,
                  data_details, deployment_context, procurement,
                  related_assessments >>
scoreVars   == << dimensions, total_score, risk_category >>
planVars    == << mitigation_plan, uuid_count >>
approvalVars == << approvals, ai_inventory_ref, transparency_statement_link >>
monitorVars == << monitoring_plan_ref, review_frequency, next_review_date >>
statusVars  == << aia_status, related_assessment_statuses >>
dateVars    == << creation_date, last_modified_date >>
identVars   == << aia_version, system_id >>

\* Every field of the object.
recordVars == << metaVars, descVars, scoreVars, mitigation_plan, approvalVars,
                 monitorVars, statusVars, dateVars, identVars >>

\* What lives outside the record: the AuthManager and its file, the register.
authVars == << users, users_file >>
dbVars == << ai_systems, sqlite_sequence >>
sessVars == << sessions >>
envVars == << authVars, dbVars, sessVars >>

vars == << recordVars, uuid_count, last, calls, envVars >>

(***************************************************************************)
(* __init__                                                                *)
(***************************************************************************)

\* The template version every new record carries.
AIA_VERSION == "1.1"

\* system_id = None is written 0: the rows of the register are numbered from
\* 1, and the code tests a system_id only for its truth value.
NoSystemId == 0

\* AlgorithmicImpactAssessment(system_name, agency_name), created at time 0:
\* every field but total_score and system_id.
InitData(name, agency) ==
    /\ aia_version = AIA_VERSION
    /\ assessed_by = << >>
    /\ referenced_frameworks = ""
    /\ assessment_date = "today"
    /\ system_name = name
    /\ agency_name = agency
    /\ system_purpose = ""
    /\ technical_specs = [model_type |-> "", algorithms |-> "",
                          language_libs |-> "", hardware_infra |-> ""]
    /\ data_details = [sources |-> "", volume_velocity |-> "", types |-> "",
                       retention_policy |-> ""]
    /\ deployment_context = [operational_env |-> "",
                             target_users_affected |-> "",
                             decision_authority |-> ""]
    /\ procurement = [method |-> "", ethical_reqs |-> ""]
    /\ related_assessments = [pia_status_desc |-> "", pia_ref |-> "",
                              other_assessments |-> ""]
    /\ dimensions = [d \in DimensionNames |-> [score |-> 0, justification |-> ""]]
    /\ risk_category = [category |-> "Low", action |-> RISK_CATEGORIES[1].action]
    /\ mitigation_plan = << >>
    /\ approvals = [assessor |-> [name |-> "", role |-> "", date |-> ""],
                    reviewer |-> [name |-> "", role |-> "", comments |-> "",
                                  date |-> ""],
                    approver |-> [name |-> "", role |-> "", decision |-> "",
                                  conditions |-> "", date |-> ""]]
    /\ ai_inventory_ref = ""
    /\ transparency_statement_link = ""
    /\ monitoring_plan_ref = ""
    /\ review_frequency = ""
    /\ next_review_date = ""
    /\ aia_status = "Draft"
    /\ related_assessment_statuses =
           [n \in {"PIA", "Security Assessment", "Human Rights Assessment"}
               |-> "Not Started"]
    /\ creation_date = 0
    /\ last_modified_date = 0

\* ... and every field but total_score.
InitFields(name, agency) ==
    /\ InitData(name, agency)
    /\ system_id = NoSystemId

InitRecord(name, agency) ==
    /\ InitFields(name, agency)
    /\ total_score = 0

\* No file of users exists.
NoFile == [exists |-> FALSE]

\* init_db() on a new database file: the table has no row and has given out
\* no system_id.
init_db ==
    /\ ai_systems = << >>
    /\ sqlite_sequence = 0

\* No browser session is open.
NoSessions == << >>

\* Nothing outside the record exists yet: no AuthManager has been made, there
\* is no users file, the register is empty and no session is open.
InitEnv ==
    /\ users = EmptyDict
    /\ users_file = NoFile
    /\ init_db
    /\ sessions = NoSessions

Init ==
    /\ InitRecord("[System Name]", "[Agency Name]")
    /\ uuid_count = 0
    /\ last = Returned("__init__", NoRet)
    /\ calls = 0
    /\ InitEnv

\* A call that raises exc: no field of the object is assigned.
Raise(op, exc) ==
    /\ last' = Raised(op, exc)
    /\ UNCHANGED << recordVars, uuid_count >>

(***************************************************************************)
(* set_dimension_score                                                     *)
(***************************************************************************)

\* A setter that accepts every integer score.
set_dimension_score_unchecked(dimension_name, score, justification, now) ==
    IF dimension_name \notin DOMAIN dimensions \/ ~IsInstanceInt(score)
    THEN Raise("set_dimension_score", "ValueError")
    ELSE /\ dimensions' = [dimensions EXCEPT ![dimension_name] =
                              [score |-> score.val,
                               justification |-> justification]]
         /\ total_score' = _calculate_total_score(dimensions')
         /\ risk_category' = _determine_risk_category(total_score')
         /\ last_modified_date' = now
         /\ last' = Returned("set_dimension_score", NoRet)
         /\ UNCHANGED << metaVars, descVars, planVars, approvalVars,
                         monitorVars, statusVars, creation_date, identVars >>

set_dimension_score(dimension_name, score, justification, now) ==
    IF dimension_name \notin DOMAIN dimensions
    THEN Raise("set_dimension_score", "ValueError")
    ELSE IF ~IsInstanceInt(score) \/ ~(0 <= score.val /\ score.val <= 5)
    THEN Raise("set_dimension_score", "ValueError")
    ELSE /\ dimensions' = [dimensions EXCEPT ![dimension_name] =
                              [score |-> score.val,
                               justification |-> justification]]
         \* self._update_risk_assessment()
         /\ total_score' = _calculate_total_score(dimensions')
         /\ risk_category' = _determine_risk_category(total_score')
         /\ last_modified_date' = now
         /\ last' = Returned("set_dimension_score", NoRet)
         /\ UNCHANGED << metaVars, descVars, planVars, approvalVars,
                         monitorVars, statusVars, creation_date, identVars >>

(***************************************************************************)
(* Mitigation plan                                                         *)
(***************************************************************************)

\* An identifier generator that hands out the same value on every call.
uuid4_repeat(count) == 1

\* str(uuid.uuid4()): the (count+1)-th identifier drawn, written count + 1; it
\* differs from every identifier drawn before. 0 is written for an identifier
\* that a caller made up.
uuid4(count) == count + 1

\* The index of the first item of plan whose id is item_id, 0 when there is none.
FirstWithId(plan, item_id) ==
    LET m == { i \in 1..Len(plan) : plan[i]["id"] = item_id }
    IN  IF m = {} THEN 0 ELSE CHOOSE i \in m : \A j \in m : i <= j

\* self.mitigation_plan.append(item)
AppendItem(plan, item) == Append(plan, item)

add_mitigation_item(dimension, risk_score_desc, action, responsible, target_date, status, now) ==
    LET item == [id |-> uuid4(uuid_count),
                 dimension |-> dimension,
                 risk_score_desc |-> risk_score_desc,
                 action |-> action,
                 responsible |-> responsible,
                 target_date |-> target_date,
                 status |-> status]
    IN  /\ uuid_count < MaxAdds
        /\ uuid_count' = uuid_count + 1
        /\ mitigation_plan' = AppendItem(mitigation_plan, item)
        /\ last_modified_date' = now
        /\ last' = Returned("add_mitigation_item", item["id"])
        /\ UNCHANGED << metaVars, descVars, scoreVars, approvalVars,
                        monitorVars, statusVars, creation_date, identVars >>

\* item.update(updates)
MergeItem(item, updates) == DictUpdate(item, updates)

update_mitigation_item(item_id, updates, now) ==
    LET i == FirstWithId(mitigation_plan, item_id)
    IN  IF i = 0
        THEN Raise("update_mitigation_item", "ValueError")
        ELSE /\ mitigation_plan' =
                    [mitigation_plan EXCEPT ![i] = MergeItem(@, updates)]
             /\ last_modified_date' = now
             /\ last' = Returned("update_mitigation_item", "True")
             /\ UNCHANGED << metaVars, descVars, scoreVars, uuid_count,
                             approvalVars, monitorVars, statusVars,
                             creation_date, identVars >>

\* [item for item in self.mitigation_plan if item['id'] != item_id]
WithoutId(plan, item_id) ==
    SelectSeq(plan, LAMBDA item : item["id"] # item_id)

remove_mitigation_item(item_id, now) ==
    LET kept == WithoutId(mitigation_plan, item_id)
    IN  IF Len(kept) = Len(mitigation_plan)
        THEN \* the list is replaced by an equal one before the raise
             Raise("remove_mitigation_item", "ValueError")
        ELSE /\ mitigation_plan' = kept
             /\ last_modified_date' = now
             /\ last' = Returned("remove_mitigation_item", "True")
             /\ UNCHANGED << metaVars, descVars, scoreVars, uuid_count,
                             approvalVars, monitorVars, statusVars,
                             creation_date, identVars >>

(***************************************************************************)
(* Descriptive setters                                                     *)
(***************************************************************************)

\* set_metadata(assessed_by, referenced_frameworks="", assessment_date=None)
set_metadata(assessed_by_arg, referenced_frameworks_arg, assessment_date_arg, now) ==
    /\ assessed_by' = IF assessed_by_arg.kind = "list"
                      THEN assessed_by_arg.val
                      ELSE << assessed_by_arg.val >>
    /\ referenced_frameworks' = referenced_frameworks_arg
    /\ assessment_date' = IF Truthy(assessment_date_arg)
                          THEN assessment_date_arg
                          ELSE assessment_date
    /\ last_modified_date' = now
    /\ last' = Returned("set_metadata", NoRet)
    /\ UNCHANGED << descVars, scoreVars, planVars, approvalVars, monitorVars,
                    statusVars, creation_date, identVars >>

\* set_system_details(system_name="", agency_name="", purpose="",
\*     tech_specs={}, data_details={}, deployment_context={}, procurement={},
\*     related_assessments={})
set_system_details(system_name_arg, agency_name_arg, purpose, tech_specs, data_details_arg, deployment_context_arg, procurement_arg, related_assessments_arg, now) ==
    /\ system_name' = IF Truthy(system_name_arg) THEN system_name_arg
                      ELSE system_name
    /\ agency_name' = IF Truthy(agency_name_arg) THEN agency_name_arg
                      ELSE agency_name
    /\ system_purpose' = IF Truthy(purpose) THEN purpose ELSE system_purpose
    /\ technical_specs' = DictUpdate(technical_specs, tech_specs)
    /\ data_details' = DictUpdate(data_details, data_details_arg)
    /\ deployment_context' =
           DictUpdate(deployment_context, deployment_context_arg)
    /\ procurement' = DictUpdate(procurement, procurement_arg)
    /\ related_assessments' =
           DictUpdate(related_assessments,
                      [k \in (DOMAIN related_assessments_arg)
                                \cap {"pia_ref", "other_assessments"}
                          |-> related_assessments_arg[k]])
    /\ last_modified_date' = now
    /\ last' = Returned("set_system_details", NoRet)
    /\ UNCHANGED << metaVars, scoreVars, planVars, approvalVars, monitorVars,
                    statusVars, creation_date, identVars >>

(***************************************************************************)
(* Approval and monitoring                                                 *)
(***************************************************************************)

\* A set_approval that assigns a supplied dict to its slot instead of
\* merging it into the slot.
set_approval_replace(assessor, reviewer, approver, now) ==
    /\ approvals' =
           [assessor |-> IF TruthyDict(assessor) THEN assessor
                         ELSE approvals.assessor,
            reviewer |-> IF TruthyDict(reviewer) THEN reviewer
                         ELSE approvals.reviewer,
            approver |-> IF TruthyDict(approver) THEN approver
                         ELSE approvals.approver]
    /\ last_modified_date' = now
    /\ last' = Returned("set_approval", NoRet)
    /\ UNCHANGED << metaVars, descVars, scoreVars, planVars, ai_inventory_ref,
                    transparency_statement_link, monitorVars, statusVars,
                    creation_date, identVars >>

\* set_approval(assessor={}, reviewer={}, approver={})
set_approval(assessor, reviewer, approver, now) ==
    /\ approvals' =
           [assessor |-> IF TruthyDict(assessor)
                         THEN DictUpdate(approvals.assessor, assessor)
                         ELSE approvals.assessor,
            reviewer |-> IF TruthyDict(reviewer)
                         THEN DictUpdate(approvals.reviewer, reviewer)
                         ELSE approvals.reviewer,
            approver |-> IF TruthyDict(approver)
                         THEN DictUpdate(approvals.approver, approver)
                         ELSE approvals.approver]
    /\ last_modified_date' = now
    /\ last' = Returned("set_approval", NoRet)
    /\ UNCHANGED << metaVars, descVars, scoreVars, planVars, ai_inventory_ref,
                    transparency_statement_link, monitorVars, statusVars,
                    creation_date, identVars >>

\* A set_links that leaves out the assignment of last_modified_date.
set_links_undated(inventory_ref, transparency_link, now) ==
    /\ ai_inventory_ref' = IF inventory_ref # PyNone THEN inventory_ref
                           ELSE ai_inventory_ref
    /\ transparency_statement_link' =
           IF transparency_link # PyNone THEN transparency_link
           ELSE transparency_statement_link
    /\ last' = Returned("set_links", NoRet)
    /\ UNCHANGED << metaVars, descVars, scoreVars, planVars, approvals,
                    monitorVars, statusVars, dateVars, identVars >>

\* set_links(inventory_ref="", transparency_link="")
set_links(inventory_ref, transparency_link, now) ==
    /\ ai_inventory_ref' = IF inventory_ref # PyNone THEN inventory_ref
                           ELSE ai_inventory_ref
    /\ transparency_statement_link' =
           IF transparency_link # PyNone THEN transparency_link
           ELSE transparency_statement_link
    /\ last_modified_date' = now
    /\ last' = Returned("set_links", NoRet)
    /\ UNCHANGED << metaVars, descVars, scoreVars, planVars, approvals,
                    monitorVars, statusVars, creation_date, identVars >>

\* set_monitoring(plan_ref="", frequency="", next_date="")
set_monitoring(plan_ref, frequency, next_date, now) ==
    /\ monitoring_plan_ref' = IF plan_ref # PyNone THEN plan_ref
                              ELSE monitoring_plan_ref
    /\ review_frequency' = IF frequency # PyNone THEN frequency
                           ELSE review_frequency
    /\ next_review_date' = IF next_date # PyNone THEN next_date
                           ELSE next_review_date
    /\ last_modified_date' = now
    /\ last' = Returned("set_monitoring", NoRet)
    /\ UNCHANGED << metaVars, descVars, scoreVars, planVars, approvalVars,
                    statusVars, creation_date, identVars >>

(***************************************************************************)
(* Statuses                                                                *)
(***************************************************************************)

\* allowed_statuses of set_aia_status
AiaStatuses == {"Draft", "In Progress", "Review", "Approved", "Archived"}

\* allowed_statuses of set_related_assessment_status
RelatedStatuses == {"Not Started", "In Progress", "Completed", "N/A"}

\* A setter with a workflow order: a record that is Approved or Archived does
\* not go back to Draft.
set_aia_status_forward_only(status, now) ==
    IF status \notin AiaStatuses
          \/ (status = "Draft" /\ aia_status \in {"Approved", "Archived"})
    THEN Raise("set_aia_status", "ValueError")
    ELSE /\ aia_status' = status
         /\ last_modified_date' = now
         /\ last' = Returned("set_aia_status", NoRet)
         /\ UNCHANGED << metaVars, descVars, scoreVars, planVars, approvalVars,
                         monitorVars, related_assessment_statuses,
                         creation_date, identVars >>

\* A setter that stores the status without looking it up.
set_aia_status_unchecked(status, now) ==
    /\ aia_status' = status
    /\ last_modified_date' = now
    /\ last' = Returned("set_aia_status", NoRet)
    /\ UNCHANGED << metaVars, descVars, scoreVars, planVars, approvalVars,
                    monitorVars, related_assessment_statuses, creation_date, identVars >>

set_aia_status(status, now) ==
    IF status \notin AiaStatuses
    THEN Raise("set_aia_status", "ValueError")
    ELSE /\ aia_status' = status
         /\ last_modified_date' = now
         /\ last' = Returned("set_aia_status", NoRet)
         /\ UNCHANGED << metaVars, descVars, scoreVars, planVars, approvalVars,
                         monitorVars, related_assessment_statuses,
                         creation_date, identVars >>

\* A setter that registers an unknown assessment_name, as Not Started, where
\* the code only prints its warning: before the status is looked up.
set_related_assessment_status_eager(assessment_name, status, now) ==
    LET known == DictUpdate([k \in {assessment_name} |-> "Not Started"],
                            related_assessment_statuses)
    IN  IF status \notin RelatedStatuses
        THEN /\ related_assessment_statuses' = known
             /\ last' = Raised("set_related_assessment_status", "ValueError")
             /\ UNCHANGED << metaVars, descVars, scoreVars, planVars,
                             approvalVars, monitorVars, aia_status, dateVars, identVars >>
        ELSE /\ related_assessment_statuses' =
                    DictUpdate(known, [k \in {assessment_name} |-> status])
             /\ last_modified_date' = now
             /\ last' = Returned("set_related_assessment_status", NoRet)
             /\ UNCHANGED << metaVars, descVars, scoreVars, planVars,
                             approvalVars, monitorVars, aia_status,
                             creation_date, identVars >>

set_related_assessment_status(assessment_name, status, now) ==
    \* an assessment_name that is no key only prints a warning
    IF status \notin RelatedStatuses
    THEN Raise("set_related_assessment_status", "ValueError")
    ELSE /\ related_assessment_statuses' =
                DictUpdate(related_assessment_statuses,
                           [k \in {assessment_name} |-> status])
         /\ last_modified_date' = now
         /\ last' = Returned("set_related_assessment_status", NoRet)
         /\ UNCHANGED << metaVars, descVars, scoreVars, planVars, approvalVars,
                         monitorVars, aia_status, creation_date, identVars >>

(***************************************************************************)
(* Calculation methods as calls                                            *)
(***************************************************************************)

\* self._determine_risk_category(): classifies self.total_score.
DetermineRiskCategory ==
    /\ risk_category' = _determine_risk_category(total_score)
    /\ last' = Returned("_determine_risk_category", risk_category')
    /\ UNCHANGED << metaVars, descVars, dimensions, total_score, planVars,
                    approvalVars, monitorVars, statusVars, dateVars, identVars >>

\* A recomputation that classifies the total it finds before it sums.
_update_risk_assessment_classify_first ==
    /\ risk_category' = _determine_risk_category(total_score)
    /\ total_score' = _calculate_total_score(dimensions)
    /\ last' = Returned("_update_risk_assessment", NoRet)
    /\ UNCHANGED << metaVars, descVars, dimensions, planVars, approvalVars,
                    monitorVars, statusVars, dateVars, identVars >>

\* self._update_risk_assessment()
_update_risk_assessment ==
    /\ total_score' = _calculate_total_score(dimensions)
    /\ risk_category' = _determine_risk_category(total_score')
    /\ last' = Returned("_update_risk_assessment", NoRet)
    /\ UNCHANGED << metaVars, descVars, dimensions, planVars, approvalVars,
                    monitorVars, statusVars, dateVars, identVars >>

\* generate_report(): the total and the category that the report prints.
generate_report ==
    \* self._update_risk_assessment()
    /\ total_score' = _calculate_total_score(dimensions)
    /\ risk_category' = _determine_risk_category(total_score')
    /\ last' = Returned("generate_report",
                        [total_score |-> total_score',
                         category |-> risk_category'.category,
                         action |-> risk_category'.action])
    /\ UNCHANGED << metaVars, descVars, dimensions, planVars, approvalVars,
                    monitorVars, statusVars, dateVars, identVars >>

(***************************************************************************)
(* auth_manager.py: permissions, roles, users                              *)
(***************************************************************************)

\* The permission attributes of class Permissions: name and value.
Permissions ==
    [VIEW_DASHBOARD |-> "view_dashboard",
     VIEW_REGISTER  |-> "view_register",
     ADD_SYSTEM     |-> "add_system",
     DELETE_SYSTEM  |-> "delete_system",
     VIEW_AIA       |-> "view_aia",
     EDIT_AIA       |-> "edit_aia",
     CHANGE_STATUS  |-> "change_status",
     APPROVE_AIA    |-> "approve_aia",
     EXPORT_AIA     |-> "export_aia",
     MANAGE_USERS   |-> "manage_users"]

\* dir(Permissions): the names of its attributes, each with what
\* attr.startswith('__') and attr.isupper() say of the name.
DirPermissions ==
    { [attr |-> a, dunder |-> FALSE, isupper |-> TRUE] : a \in DOMAIN Permissions }
    \cup { [attr |-> "get_all_permissions", dunder |-> FALSE, isupper |-> FALSE],
           [attr |-> "__doc__", dunder |-> TRUE, isupper |-> FALSE],
           [attr |-> "__module__", dunder |-> TRUE, isupper |-> FALSE],
           [attr |-> "__dict__", dunder |-> TRUE, isupper |-> FALSE] }

\* Permissions.get_all_permissions(): the list comprehension keeps attr, the
\* name of the attribute.
get_all_permissions ==
    { d.attr : d \in { x \in DirPermissions : ~x.dunder /\ x.isupper } }

ROLE_PERMISSIONS ==
    [admin |->
        << Permissions.VIEW_DASHBOARD, Permissions.VIEW_REGISTER,
           Permissions.ADD_SYSTEM, Permissions.DELETE_SYSTEM,
           Permissions.VIEW_AIA, Permissions.EDIT_AIA,
           Permissions.CHANGE_STATUS, Permissions.APPROVE_AIA,
           Permissions.EXPORT_AIA, Permissions.MANAGE_USERS >>,
     reviewer |->
        << Permissions.VIEW_DASHBOARD, Permissions.VIEW_REGISTER,
           Permissions.VIEW_AIA, Permissions.EDIT_AIA,
           Permissions.CHANGE_STATUS, Permissions.APPROVE_AIA,
           Permissions.EXPORT_AIA >>,
     assessor |->
        << Permissions.VIEW_DASHBOARD, Permissions.VIEW_REGISTER,
           Permissions.ADD_SYSTEM, Permissions.VIEW_AIA,
           Permissions.EDIT_AIA, Permissions.EXPORT_AIA >>,
     viewer |->
        << Permissions.VIEW_DASHBOARD, Permissions.VIEW_REGISTER,
           Permissions.VIEW_AIA, Permissions.EXPORT_AIA >>]

\* x in lst, for a list.
InList(x, lst) == \E i \in 1..Len(lst) : lst[i] = x

\* A has_permission that falls back to the viewer's list for a role that is
\* no key of the table.
has_permission_default_viewer(self, permission) ==
    IF self.role \notin DOMAIN ROLE_PERMISSIONS
    THEN InList(permission, ROLE_PERMISSIONS["viewer"])
    ELSE InList(permission, ROLE_PERMISSIONS[self.role])

\* User.has_permission
has_permission(self, permission) ==
    IF self.role \notin DOMAIN ROLE_PERMISSIONS
    THEN FALSE
    ELSE InList(permission, ROLE_PERMISSIONS[self.role])

\* last_login = None is written -1: every instant of the clock is 0 or more.
NeverLoggedIn == 0 - 1

\* User(email, name, role, agency), made at the instant now.
User(email, name, role, agency, now) ==
    [email |-> email, name |-> name, role |-> role, agency |-> agency,
     created_at |-> now, last_login |-> NeverLoggedIn]

\* User.to_dict
to_dict(self) ==
    [email |-> self.email, name |-> self.name, role |-> self.role,
     agency |-> self.agency, created_at |-> self.created_at,
     last_login |-> self.last_login]

\* User.from_dict, for the dicts that to_dict writes (all six keys present).
from_dict(data) ==
    [User(data.email, data.name, data.role, data.agency, data.created_at)
        EXCEPT !.last_login = data.last_login]

\* True and False as return values.
PyTrue == "True"
PyFalse == "False"
BoolRet(b) == IF b THEN PyTrue ELSE PyFalse

\* AuthManager._save_users writing all_users: saved is whether open() and
\* json.dump went through; on IOError the file stays as it was and the
\* method returns False.
_save_users(all_users, saved) ==
    users_file' = IF saved
                  THEN [exists |-> TRUE,
                        data |-> [e \in DOMAIN all_users |-> to_dict(all_users[e])]]
                  ELSE users_file

\* AuthManager._load_users: the users the file holds, none without a file.
_load_users(file) ==
    IF file.exists
    THEN [e \in DOMAIN file.data |-> from_dict(file.data[e])]
    ELSE EmptyDict

\* AuthManager._create_default_admin, called on an AuthManager without users.
DefaultAdmin(now) ==
    [e \in {"admin@example.com"} |->
        User("admin@example.com", "Default Admin", "admin", "System", now)]

\* AuthManager(users_file), as get_auth_manager() makes one on every run of
\* the application.
AuthManagerInit(now, saved) ==
    LET loaded == _load_users(users_file)
    IN  /\ IF loaded = EmptyDict
           THEN /\ users' = DefaultAdmin(now)
                /\ _save_users(users', saved)
           ELSE /\ users' = loaded
                /\ UNCHANGED users_file
        /\ last' = Returned("AuthManager", NoRet)

\* AuthManager.get_user: self.users.get(email)
get_user(email) == IF email \in DOMAIN users THEN users[email] ELSE PyNone

add_user(email, name, role, agency, now, saved) ==
    IF email \in DOMAIN users
    THEN /\ last' = Returned("add_user", PyFalse)
         /\ UNCHANGED authVars
    ELSE /\ users' = DictUpdate(users, [e \in {email} |->
                                          User(email, name, role, agency, now)])
         /\ _save_users(users', saved)
         /\ last' = Returned("add_user", BoolRet(saved))

\* update_user(email, name=None, role=None, agency=None)
update_user(email, name, role, agency, saved) ==
    IF email \notin DOMAIN users
    THEN /\ last' = Returned("update_user", PyFalse)
         /\ UNCHANGED authVars
    ELSE /\ users' = [users EXCEPT ![email] =
                        [@ EXCEPT !.name = IF name # PyNone THEN name ELSE @,
                                  !.role = IF role # PyNone THEN role ELSE @,
                                  !.agency = IF agency # PyNone THEN agency
                                             ELSE @]]
         /\ _save_users(users', saved)
         /\ last' = Returned("update_user", BoolRet(saved))

delete_user(email, saved) ==
    IF email \notin DOMAIN users
    THEN /\ last' = Returned("delete_user", PyFalse)
         /\ UNCHANGED authVars
    ELSE /\ users' = [e \in (DOMAIN users) \ {email} |-> users[e]]
         /\ _save_users(users', saved)
         /\ last' = Returned("delete_user", BoolRet(saved))

authenticate_user(email, now, saved) ==
    IF email \notin DOMAIN users
    THEN /\ last' = Returned("authenticate_user", PyNone)
         /\ UNCHANGED authVars
    ELSE \* user.update_last_login(); self._save_users()
         /\ users' = [users EXCEPT ![email].last_login = now]
         /\ _save_users(users', saved)
         /\ last' = Returned("authenticate_user", users'[email])

\* What AuthManager.user_has_permission returns.
user_has_permission_value(email, permission) ==
    IF email \notin DOMAIN users
    THEN FALSE
    ELSE has_permission(users[email], permission)

user_has_permission(email, permission) ==
    /\ last' = Returned("user_has_permission",
                        BoolRet(user_has_permission_value(email, permission)))
    /\ UNCHANGED authVars

(***************************************************************************)
(* db_manager.py: the register of systems                                  *)
(***************************************************************************)

\* aia_object.__dict__: every attribute of the record.
__dict__ ==
    [aia_version |-> aia_version,
     assessment_date |-> assessment_date,
     assessed_by |-> assessed_by,
     referenced_frameworks |-> referenced_frameworks,
     system_name |-> system_name,
     agency_name |-> agency_name,
     system_purpose |-> system_purpose,
     technical_specs |-> technical_specs,
     data_details |-> data_details,
     deployment_context |-> deployment_context,
     procurement |-> procurement,
     related_assessments |-> related_assessments,
     dimensions |-> dimensions,
     total_score |-> total_score,
     risk_category |-> risk_category,
     mitigation_plan |-> mitigation_plan,
     approvals |-> approvals,
     ai_inventory_ref |-> ai_inventory_ref,
     transparency_statement_link |-> transparency_statement_link,
     monitoring_plan_ref |-> monitoring_plan_ref,
     review_frequency |-> review_frequency,
     next_review_date |-> next_review_date,
     system_id |-> system_id,
     aia_status |-> aia_status,
     related_assessment_statuses |-> related_assessment_statuses,
     creation_date |-> creation_date,
     last_modified_date |-> last_modified_date]

\* The __dict__ of AlgorithmicImpactAssessment(system_name, agency_name) made
\* at the instant now.
NewAia(name, agency, now) ==
    [aia_version |-> AIA_VERSION,
     assessment_date |-> "today",
     assessed_by |-> << >>,
     referenced_frameworks |-> "",
     system_name |-> name,
     agency_name |-> agency,
     system_purpose |-> "",
     technical_specs |-> [model_type |-> "", algorithms |-> "",
                          language_libs |-> "", hardware_infra |-> ""],
     data_details |-> [sources |-> "", volume_velocity |-> "", types |-> "",
                       retention_policy |-> ""],
     deployment_context |-> [operational_env |-> "",
                             target_users_affected |-> "",
                             decision_authority |-> ""],
     procurement |-> [method |-> "", ethical_reqs |-> ""],
     related_assessments |-> [pia_status_desc |-> "", pia_ref |-> "",
                              other_assessments |-> ""],
     dimensions |-> [d \in DimensionNames |-> [score |-> 0, justification |-> ""]],
     total_score |-> 0,
     risk_category |-> [category |-> "Low", action |-> RISK_CATEGORIES[1].action],
     mitigation_plan |-> << >>,
     approvals |-> [assessor |-> [name |-> "", role |-> "", date |-> ""],
                    reviewer |-> [name |-> "", role |-> "", comments |-> "",
                                  date |-> ""],
                    approver |-> [name |-> "", role |-> "", decision |-> "",
                                  conditions |-> "", date |-> ""]],
     ai_inventory_ref |-> "",
     transparency_statement_link |-> "",
     monitoring_plan_ref |-> "",
     review_frequency |-> "",
     next_review_date |-> "",
     system_id |-> NoSystemId,
     aia_status |-> "Draft",
     related_assessment_statuses |->
         [n \in {"PIA", "Security Assessment", "Human Rights Assessment"}
             |-> "Not Started"],
     creation_date |-> now,
     last_modified_date |-> now]

\* json.dumps(obj, ensure_ascii=False) of a dict whose keys are texts and
\* whose values are texts, integers, None, lists and such dicts: the JSON
\* document with the same members.
json_dumps(obj) == [json |-> obj]

\* json.loads(text)
json_loads(text) == text.json

\* dict.get(key, default)
DictGet(d, key, default) == IF key \in DOMAIN d THEN d[key] ELSE default

\* The row that add_system inserts: the columns it names, the others with
\* the defaults of the CREATE TABLE statement.
NewRow(id, name, agency, now) ==
    [system_id |-> id,
     system_name |-> name,
     agency_name |-> agency,
     aia_status |-> "Draft",
     risk_category |-> "Low",
     total_score |-> 0,
     pia_status |-> "Not Started",
     security_assessment_status |-> "Not Started",
     human_rights_assessment_status |-> "Not Started",
     creation_date |-> now,
     last_modified_date |-> now,
     aia_data |-> json_dumps(NewAia(name, agency, now))]

\* A row number one above the largest in the table, as a column without
\* AUTOINCREMENT gets it.
lastrowid_max_plus_one(table, sequence) ==
    IF DOMAIN table = {} THEN 1
    ELSE (CHOOSE i \in DOMAIN table : \A j \in DOMAIN table : j <= i) + 1

\* cursor.lastrowid after the INSERT: AUTOINCREMENT numbers the row one
\* above the largest system_id the table ever gave out.
lastrowid(table, sequence) == sequence + 1

\* add_system(system_name, agency_name)
add_system(name, agency, now) ==
    LET id == lastrowid(ai_systems, sqlite_sequence)
    IN  /\ ai_systems' = [i \in (DOMAIN ai_systems) \cup {id} |->
                             IF i = id THEN NewRow(id, name, agency, now)
                             ELSE ai_systems[i]]
        /\ sqlite_sequence' = id
        /\ last' = Returned("add_system", id)
        /\ UNCHANGED << recordVars, uuid_count >>

\* What get_aia_object returns when it finds the row: the object that is
\* from then on the record at hand.
AiaObject == "aia_obj"

\* A get_aia_object that leaves the derived fields as the constructor made
\* them.
get_aia_object_derived_defaults(id) ==
    IF id \notin DOMAIN ai_systems
    THEN /\ last' = Returned("get_aia_object", PyNone)
         /\ UNCHANGED << recordVars, uuid_count, dbVars >>
    ELSE LET aia_data == json_loads(ai_systems[id].aia_data)
         IN  \* aia_obj.__dict__.update(aia_data)
             /\ aia_version' = aia_data.aia_version
             /\ assessment_date' = aia_data.assessment_date
             /\ assessed_by' = aia_data.assessed_by
             /\ referenced_frameworks' = aia_data.referenced_frameworks
             /\ system_name' = aia_data.system_name
             /\ agency_name' = aia_data.agency_name
             /\ system_purpose' = aia_data.system_purpose
             /\ technical_specs' = aia_data.technical_specs
             /\ data_details' = aia_data.data_details
             /\ deployment_context' = aia_data.deployment_context
             /\ procurement' = aia_data.procurement
             /\ related_assessments' = aia_data.related_assessments
             /\ dimensions' = aia_data.dimensions
             /\ total_score' = 0
             /\ risk_category' = NewAia("", "", 0).risk_category
             /\ mitigation_plan' = aia_data.mitigation_plan
             /\ approvals' = aia_data.approvals
             /\ ai_inventory_ref' = aia_data.ai_inventory_ref
             /\ transparency_statement_link' =
                    aia_data.transparency_statement_link
             /\ monitoring_plan_ref' = aia_data.monitoring_plan_ref
             /\ review_frequency' = aia_data.review_frequency
             /\ next_review_date' = aia_data.next_review_date
             /\ aia_status' = aia_data.aia_status
             /\ related_assessment_statuses' =
                    aia_data.related_assessment_statuses
             /\ creation_date' = aia_data.creation_date
             /\ last_modified_date' = aia_data.last_modified_date
             \* aia_obj.system_id = system_id
             /\ system_id' = id
             /\ last' = Returned("get_aia_object", AiaObject)
             /\ UNCHANGED << uuid_count, dbVars >>

\* get_aia_object(system_id): the object it returns becomes the record at
\* hand; without a row it returns None and the record at hand stays.
get_aia_object(id) ==
    IF id \notin DOMAIN ai_systems
    THEN /\ last' = Returned("get_aia_object", PyNone)
         /\ UNCHANGED << recordVars, uuid_count, dbVars >>
    ELSE LET aia_data == json_loads(ai_systems[id].aia_data)
         IN  \* aia_obj.__dict__.update(aia_data)
             /\ aia_version' = aia_data.aia_version
             /\ assessment_date' = aia_data.assessment_date
             /\ assessed_by' = aia_data.assessed_by
             /\ referenced_frameworks' = aia_data.referenced_frameworks
             /\ system_name' = aia_data.system_name
             /\ agency_name' = aia_data.agency_name
             /\ system_purpose' = aia_data.system_purpose
             /\ technical_specs' = aia_data.technical_specs
             /\ data_details' = aia_data.data_details
             /\ deployment_context' = aia_data.deployment_context
             /\ procurement' = aia_data.procurement
             /\ related_assessments' = aia_data.related_assessments
             /\ dimensions' = aia_data.dimensions
             /\ total_score' = aia_data.total_score
             /\ risk_category' = aia_data.risk_category
             /\ mitigation_plan' = aia_data.mitigation_plan
             /\ approvals' = aia_data.approvals
             /\ ai_inventory_ref' = aia_data.ai_inventory_ref
             /\ transparency_statement_link' =
                    aia_data.transparency_statement_link
             /\ monitoring_plan_ref' = aia_data.monitoring_plan_ref
             /\ review_frequency' = aia_data.review_frequency
             /\ next_review_date' = aia_data.next_review_date
             /\ aia_status' = aia_data.aia_status
             /\ related_assessment_statuses' =
                    aia_data.related_assessment_statuses
             /\ creation_date' = aia_data.creation_date
             /\ last_modified_date' = aia_data.last_modified_date
             \* aia_obj.system_id = system_id
             /\ system_id' = id
             /\ last' = Returned("get_aia_object", AiaObject)
             /\ UNCHANGED << uuid_count, dbVars >>

\* An UPDATE statement that writes aia_data and last_modified_date and leaves
\* the other columns of the row as they were.
UpdateRow_snapshot_only(table, obj) ==
    IF obj.system_id \notin DOMAIN table
    THEN table
    ELSE [table EXCEPT ![obj.system_id] =
            [@ EXCEPT
               !.last_modified_date = obj.last_modified_date,
               !.aia_data = json_dumps(obj)]]

\* An UPDATE statement without its WHERE clause.
UpdateRow_every_row(table, obj) ==
    [i \in DOMAIN table |->
        [table[i] EXCEPT
           !.system_name = obj.system_name,
           !.agency_name = obj.agency_name,
           !.aia_status = obj.aia_status,
           !.risk_category = obj.risk_category.category,
           !.total_score = obj.total_score,
           !.last_modified_date = obj.last_modified_date,
           !.aia_data = json_dumps(obj)]]

\* The UPDATE statement of update_aia: the row of the object's system_id, if
\* there is one, gets the columns taken from the object obj and its JSON.
UpdateRow(table, obj) ==
    IF obj.system_id \notin DOMAIN table
    THEN table
    ELSE [table EXCEPT ![obj.system_id] =
            [@ EXCEPT
               !.system_name = obj.system_name,
               !.agency_name = obj.agency_name,
               !.aia_status = obj.aia_status,
               !.risk_category = obj.risk_category.category,
               !.total_score = obj.total_score,
               !.pia_status =
                   DictGet(obj.related_assessment_statuses, "PIA",
                           "Not Started"),
               !.security_assessment_status =
                   DictGet(obj.related_assessment_statuses,
                           "Security Assessment", "Not Started"),
               !.human_rights_assessment_status =
                   DictGet(obj.related_assessment_statuses,
                           "Human Rights Assessment", "Not Started"),
               !.last_modified_date = obj.last_modified_date,
               !.aia_data = json_dumps(obj)]]

\* An update_aia that writes the object as it finds it.
update_aia_stale(now) ==
    IF system_id = NoSystemId
    THEN /\ Raise("update_aia", "ValueError")
         /\ UNCHANGED dbVars
    ELSE /\ last_modified_date' = now
         /\ ai_systems' =
                UpdateRow(ai_systems,
                          [__dict__ EXCEPT !.last_modified_date = now])
         /\ last' = Returned("update_aia", NoRet)
         /\ UNCHANGED << metaVars, descVars, scoreVars, planVars, approvalVars,
                         monitorVars, statusVars, creation_date, identVars,
                         sqlite_sequence >>

\* update_aia(aia_object), the record at hand being aia_object.
update_aia(now) ==
    IF system_id = NoSystemId
    THEN /\ Raise("update_aia", "ValueError")
         /\ UNCHANGED dbVars
    ELSE \* aia_object._update_risk_assessment()
         /\ total_score' = _calculate_total_score(dimensions)
         /\ risk_category' = _determine_risk_category(total_score')
         /\ last_modified_date' = now
         /\ ai_systems' =
                UpdateRow(ai_systems,
                          [__dict__ EXCEPT
                             !.total_score = total_score',
                             !.risk_category = risk_category',
                             !.last_modified_date = now])
         /\ last' = Returned("update_aia", NoRet)
         /\ UNCHANGED << metaVars, descVars, dimensions, planVars,
                         approvalVars, monitorVars, statusVars, creation_date,
                         identVars, sqlite_sequence >>

\* A delete_system that reports success whatever it found.
delete_system_always_true(id) ==
    /\ ai_systems' = [i \in (DOMAIN ai_systems) \ {id} |-> ai_systems[i]]
    /\ last' = Returned("delete_system", PyTrue)
    /\ UNCHANGED << recordVars, uuid_count, sqlite_sequence >>

\* delete_system(system_id): the DELETE statement, and whether it changed
\* the table.
delete_system(id) ==
    /\ ai_systems' = [i \in (DOMAIN ai_systems) \ {id} |-> ai_systems[i]]
    /\ last' = Returned("delete_system", BoolRet(id \in DOMAIN ai_systems))
    /\ UNCHANGED << recordVars, uuid_count, sqlite_sequence >>

\* The columns a row of get_system_list carries.
Summary(row) ==
    [system_id |-> row.system_id,
     system_name |-> row.system_name,
     agency_name |-> row.agency_name,
     aia_status |-> row.aia_status,
     risk_category |-> row.risk_category,
     total_score |-> row.total_score,
     last_modified_date |-> row.last_modified_date]

\* The keys of a filter that get_system_list turns into conditions.
FilterableFields == {"aia_status", "risk_category", "agency_name"}

\* get_system_list(filters) on the table: the dicts of the rows that meet
\* every condition, as a set; filters is a dict, {} for no filter. The
\* order of the list (last_modified_date, latest first) is not kept.
get_system_list(table, filters) ==
    { Summary(table[i]) :
        i \in { j \in DOMAIN table :
                  \A key \in (DOMAIN filters) \cap FilterableFields :
                      Summary(table[j])[key] = filters[key] } }

(***************************************************************************)
(* The clock                                                               *)
(***************************************************************************)

\* What datetime.datetime.now() can return to the next call: an instant not
\* before the one the last successful mutator read.
Now == { t \in 0..MaxTime : t >= last_modified_date }

\* ... and to the next call of the AuthManager: an instant not before any that
\* a user carries.
AuthNow ==
    { t \in 0..MaxTime :
         \A e \in DOMAIN users :
             t >= users[e].created_at /\ t >= users[e].last_login }

(***************************************************************************)
(* Arguments the calls are made with                                       *)
(***************************************************************************)

\* A name that is no key of self.dimensions.
UnknownDimension == "Explainability"

\* <<dimension_name, score, justification>> of calls that succeed: every
\* dimension with the scores 0 and 5, the first also with 1 and True.
GoodScoreArgs ==
    { << d, PyInt(0), "" >> : d \in DimensionNames }
    \cup { << d, PyInt(5), "worst case" >> : d \in DimensionNames }
    \cup { << DIMENSIONS[1], PyInt(1), "minor" >>,
           << DIMENSIONS[1], PyBool(TRUE), "minor" >> }

\* ... and of calls that raise.
BadScoreArgs ==
    { << DIMENSIONS[Len(DIMENSIONS)], s, "rejected" >> :
         s \in {PyInt(-1), PyInt(6), PyFloat(2)} }
    \cup { << UnknownDimension, PyInt(3), "rejected" >>,
           << UnknownDimension, PyInt(6), "rejected" >> }

ScoreArgs == GoodScoreArgs \cup BadScoreArgs

(***************************************************************************)
(* SpecScore: a new record and any sequence of set_dimension_score calls   *)
(***************************************************************************)

SetDimensionScore ==
    \E a \in ScoreArgs, now \in Now :
        set_dimension_score(a[1], a[2], a[3], now)

NextScore == SetDimensionScore /\ UNCHANGED << calls, envVars >>

SpecScore == Init /\ [][NextScore]_vars

(***************************************************************************)
(* SpecPlan: a new record and any sequence of add_mitigation_item,         *)
(* update_mitigation_item and remove_mitigation_item calls                 *)
(***************************************************************************)

\* <<dimension, status>> of add_mitigation_item: a canonical dimension with
\* the default status, and free text (populate_db.py) with a status text that
\* the comment on the field does not list.
AddArgs ==
    { << "Bias and Fairness", "Planned" >>,
      << "Explainability", "Deferred" >> }

\* The identifiers calls are made with: every one drawn so far, the next one
\* to be drawn (held by no item), and the made-up 0.
IdArgs == 0..(uuid_count + 1)

\* The keyword arguments of update_mitigation_item: none, an existing field
\* together with a new key, and the key "id".
UpdateArgs ==
    { EmptyDict,
      [status |-> "Completed", notes |-> "verified"] }
    \cup { [id |-> i] : i \in 0..uuid_count }

AddMitigationItem ==
    \E a \in AddArgs, now \in Now :
        add_mitigation_item(a[1], "Potential bias (Score=4)",
                            "Targeted testing", "Dev Team", "2025-06-30",
                            a[2], now)

UpdateMitigationItem ==
    \E item_id \in IdArgs, updates \in UpdateArgs, now \in Now :
        update_mitigation_item(item_id, updates, now)

RemoveMitigationItem ==
    \E item_id \in IdArgs, now \in Now :
        remove_mitigation_item(item_id, now)

NextPlan ==
    \/ AddMitigationItem /\ UNCHANGED << calls, envVars >>
    \/ UpdateMitigationItem /\ UNCHANGED << calls, envVars >>
    \/ RemoveMitigationItem /\ UNCHANGED << calls, envVars >>

SpecPlan == Init /\ [][NextPlan]_vars

(***************************************************************************)
(* SpecClassify: _determine_risk_category applied to a total_score that    *)
(* was assigned directly, inside and outside 0..65                         *)
(***************************************************************************)

TotalArgs == (0 - MaxOut)..(65 + MaxOut)

InitClassify ==
    /\ InitFields("[System Name]", "[Agency Name]")
    /\ total_score \in TotalArgs
    /\ uuid_count = 0
    /\ last = Returned("__init__", NoRet)
    /\ calls = 0
    /\ InitEnv

NextClassify ==
    DetermineRiskCategory /\ UNCHANGED << uuid_count, calls, envVars >>

SpecClassify == InitClassify /\ [][NextClassify]_vars

(***************************************************************************)
(* Spec: a new record and up to MaxCalls calls of its mutation methods     *)
(***************************************************************************)

\* The scoring calls of Spec: two dimensions, and the calls that raise.
BroadScoreArgs ==
    { a \in GoodScoreArgs : a[1] \in {DIMENSIONS[1], DIMENSIONS[2]} }
    \cup BadScoreArgs

\* <<assessed_by, referenced_frameworks, assessment_date>>; the second call
\* leaves both optional arguments at their defaults.
MetadataArgs ==
    { << PyList(<< "Ann (Lead)", "Raj (Analyst)" >>), "ISO 42001", "2025-03-01" >>,
      << PyStr("Ann (Lead)"), "", PyNone >> }

\* The arguments of set_system_details; an argument left out has its default.
SystemDetailsArgs ==
    { [system_name |-> "Claims Triage", agency_name |-> "", purpose |-> "",
       tech_specs |-> [model_type |-> "GBM"], data_details |-> EmptyDict,
       deployment_context |-> EmptyDict, procurement |-> EmptyDict,
       related_assessments |-> [pia_ref |-> "PIA-7", pia_status_desc |-> "done"]],
      [system_name |-> "", agency_name |-> "Dept X", purpose |-> "Triage",
       tech_specs |-> [algorithms |-> "XGBoost", vendor |-> "Acme"],
       data_details |-> [sources |-> "CRM"],
       deployment_context |-> [operational_env |-> "Cloud"],
       procurement |-> [method |-> "Tender"],
       related_assessments |-> EmptyDict] }

\* <<assessor, reviewer, approver>> of set_approval.
ApprovalArgs ==
    { << [name |-> "Ann", role |-> "Lead"], EmptyDict, EmptyDict >>,
      << [date |-> "2025-03-02"], [comments |-> "ok"], EmptyDict >>,
      << EmptyDict, EmptyDict, [decision |-> "Approved", name |-> "Sam"] >> }

\* <<inventory_ref, transparency_link>> of set_links; "" is also the default.
LinksArgs ==
    { << "INV-12", "" >>, << "", "https://example.gov/ai" >>,
      << PyNone, "https://example.gov/ai" >> }

\* <<plan_ref, frequency, next_date>> of set_monitoring; "" is the default.
MonitoringArgs ==
    { << "MON-3", "", "" >>, << PyNone, "Annual", PyNone >>,
      << "", "", "2026-01-01" >> }

\* The status of set_aia_status: the allowed ones, and texts that are not in
\* the list (another word, another spelling, the empty text).
AiaStatusArgs == AiaStatuses \cup {"Rejected", "draft", ""}

\* <<assessment_name, status>> of set_related_assessment_status.
RelatedStatusArgs ==
    { << "PIA", "Completed" >>, << "PIA", "Done" >>,
      << "Ethics Review", "In Progress" >>, << "Ethics Review", "Done" >>,
      << "Security Assessment", "N/A" >> }

SetMetadata ==
    \E a \in MetadataArgs, now \in Now : set_metadata(a[1], a[2], a[3], now)

SetSystemDetails ==
    \E a \in SystemDetailsArgs, now \in Now :
        set_system_details(a.system_name, a.agency_name, a.purpose,
                           a.tech_specs, a.data_details, a.deployment_context,
                           a.procurement, a.related_assessments, now)

SetDimensionScoreBroad ==
    \E a \in BroadScoreArgs, now \in Now :
        set_dimension_score(a[1], a[2], a[3], now)

SetApproval ==
    \E a \in ApprovalArgs, now \in Now : set_approval(a[1], a[2], a[3], now)

SetLinks ==
    \E a \in LinksArgs, now \in Now : set_links(a[1], a[2], now)

SetMonitoring ==
    \E a \in MonitoringArgs, now \in Now : set_monitoring(a[1], a[2], a[3], now)

SetAiaStatus ==
    \E status \in AiaStatusArgs, now \in Now : set_aia_status(status, now)

SetRelatedAssessmentStatus ==
    \E a \in RelatedStatusArgs, now \in Now :
        set_related_assessment_status(a[1], a[2], now)

\* One more call is made on the record; nothing outside it changes.
Counted == calls < MaxCalls /\ calls' = calls + 1 /\ UNCHANGED envVars

Next ==
    \/ SetMetadata /\ Counted
    \/ SetSystemDetails /\ Counted
    \/ SetDimensionScoreBroad /\ Counted
    \/ AddMitigationItem /\ Counted
    \/ UpdateMitigationItem /\ Counted
    \/ RemoveMitigationItem /\ Counted
    \/ SetApproval /\ Counted
    \/ SetLinks /\ Counted
    \/ SetMonitoring /\ Counted
    \/ SetAiaStatus /\ Counted
    \/ SetRelatedAssessmentStatus /\ Counted

Spec == Init /\ [][Next]_vars

(***************************************************************************)
(* SpecAuth: an AuthManager made without a users file, and up to MaxCalls  *)
(* calls of its methods                                                    *)
(***************************************************************************)

\* A role the table does not have, and None.
UnknownRole == "auditor"
RoleArgs == (DOMAIN ROLE_PERMISSIONS) \cup {UnknownRole}

\* The emails calls are made with; the last one never becomes a user.
UserEmails == {"admin@example.com", "ann@agency.gov"}
EmailArgs == UserEmails \cup {"nobody@agency.gov"}

\* The permission argument: the ten values, the ten names that
\* get_all_permissions returns, and a text that is neither.
PermissionValues == { Permissions[a] : a \in DOMAIN Permissions }
PermissionArgs ==
    PermissionValues \cup get_all_permissions \cup {"drop_database"}

InitAuth ==
    /\ InitRecord("[System Name]", "[Agency Name]")
    /\ uuid_count = 0
    /\ calls = 0
    /\ last = Returned("AuthManager", NoRet)
    /\ users = DefaultAdmin(0)
    /\ users_file \in { NoFile,
                        [exists |-> TRUE,
                         data |-> [e \in DOMAIN users |-> to_dict(users[e])]] }
    /\ init_db
    /\ sessions = NoSessions

GetAuthManager ==
    \E now \in AuthNow, saved \in BOOLEAN : AuthManagerInit(now, saved)

AddUser ==
    \E email \in UserEmails, role \in RoleArgs, now \in AuthNow,
       saved \in BOOLEAN :
        add_user(email, "Ann", role, "Dept X", now, saved)

UpdateUser ==
    \E email \in EmailArgs, role \in RoleArgs \cup {PyNone},
       saved \in BOOLEAN :
        update_user(email, PyNone, role, PyNone, saved)

DeleteUser ==
    \E email \in EmailArgs, saved \in BOOLEAN : delete_user(email, saved)

AuthenticateUser ==
    \E email \in EmailArgs, now \in AuthNow, saved \in BOOLEAN :
        authenticate_user(email, now, saved)

UserHasPermission ==
    \E email \in EmailArgs, permission \in PermissionArgs :
        user_has_permission(email, permission)

\* One more call is made on the AuthManager; the record and the register
\* are left alone.
AuthFrame ==
    /\ calls < MaxCalls
    /\ calls' = calls + 1
    /\ UNCHANGED << recordVars, uuid_count, dbVars, sessVars >>

NextAuth ==
    \/ GetAuthManager /\ AuthFrame
    \/ AddUser /\ AuthFrame
    \/ UpdateUser /\ AuthFrame
    \/ DeleteUser /\ AuthFrame
    \/ AuthenticateUser /\ AuthFrame
    \/ UserHasPermission /\ AuthFrame

SpecAuth == InitAuth /\ [][NextAuth]_vars

(***************************************************************************)
(* Properties                                                              *)
(***************************************************************************)

\* The arithmetic sum of the scores of the dimensions in S.
RECURSIVE SumOver(_, _)
SumOver(dims, S) ==
    IF S = {} THEN 0
    ELSE LET d == CHOOSE x \in S : TRUE
         IN  dims[d].score + SumOver(dims, S \ {d})

\* The last call was op and returned normally / raised ValueError.
Succeeded(op) == last.op = op /\ last.outcome = "ok"
Failed(op)    == last.op = op /\ last.outcome = "ValueError"

\* C1: in every state reached from a new record, after successful and after
\* failing calls alike, total_score is the sum of the scores of the 13
\* dimensions and lies in 0..65.
C1_TotalIsSum ==
    /\ Cardinality(DOMAIN dimensions) = 13
    /\ total_score = SumOver(dimensions, DOMAIN dimensions)
    /\ total_score \in 0..65

\* C1 case: every dimension has been scored 5, the total is 65.
C1_Witness ==
    /\ Succeeded("set_dimension_score")
    /\ \A d \in DOMAIN dimensions : dimensions[d].score = 5
    /\ total_score = 65

\* The entries of the range table whose range contains t.
EntriesFor(t) ==
    { i \in 1..Len(RISK_CATEGORIES) :
         RISK_CATEGORIES[i].lo <= t /\ t <= RISK_CATEGORIES[i].hi }

\* risk_category is the category and action of the one table entry for t.
IsEntryFor(rc, t) ==
    /\ Cardinality(EntriesFor(t)) = 1
    /\ \A i \in EntriesFor(t) :
          rc = [category |-> RISK_CATEGORIES[i].category,
                action |-> RISK_CATEGORIES[i].action]

\* C2: in every reachable state risk_category is exactly the table entry of
\* the current total_score, and no step changes risk_category without
\* changing total_score.
C2_RiskFollowsTotal ==
    /\ [](IsEntryFor(risk_category, total_score))
    /\ [][risk_category' # risk_category => total_score' # total_score]_vars

\* C2 case: scoring has moved the record into the last range of the table.
C2_Witness ==
    /\ Succeeded("set_dimension_score")
    /\ total_score = 45
    /\ risk_category.category = "Severe"

\* The category the ranges 0..10, 11..25, 26..40, 41..65 give a total.
RangeCategory(t) ==
    IF t <= 10 THEN "Low"
    ELSE IF t <= 25 THEN "Medium"
    ELSE IF t <= 40 THEN "High"
    ELSE "Severe"

\* C3: for every total in 0..65 the classification returns the category of
\* the range the total lies in, one of the four named ones, and exactly one
\* range of the table contains the total.
C3_ClassifyInRange ==
    (Succeeded("_determine_risk_category") /\ total_score \in 0..65) =>
        /\ risk_category.category = RangeCategory(total_score)
        /\ risk_category.category \in {"Low", "Medium", "High", "Severe"}
        /\ last.ret = risk_category
        /\ Cardinality(EntriesFor(total_score)) = 1

\* C3 case: the boundary total 11 has been classified Medium.
C3_Witness ==
    /\ Succeeded("_determine_risk_category")
    /\ total_score = 11
    /\ risk_category.category = "Medium"

\* C4: for every total outside 0..65 the classification returns Undefined
\* with the action "Score out of expected range.", never a named category.
C4_ClassifyOutOfRange ==
    (Succeeded("_determine_risk_category") /\ total_score \notin 0..65) =>
        /\ risk_category.category = "Undefined"
        /\ risk_category.action = "Score out of expected range."
        /\ last.ret = risk_category

\* C4 case: the total 66 has been classified.
C4_Witness ==
    /\ Succeeded("_determine_risk_category")
    /\ total_score = 66
    /\ risk_category.category = "Undefined"

\* C5: in every reachable state the keys of dimensions are exactly the 13
\* canonical names and every score is an integer in 0..5.
C5_DimensionsWellFormed ==
    /\ DOMAIN dimensions = DimensionNames
    /\ Cardinality(DOMAIN dimensions) = 13
    /\ \A d \in DOMAIN dimensions : dimensions[d].score \in 0..5

\* C5 case: a call with a rejected score or name came after the record had
\* been scored.
C5_Witness ==
    /\ Failed("set_dimension_score")
    /\ dimensions[DIMENSIONS[Len(DIMENSIONS)]].score = 5
    /\ dimensions[DIMENSIONS[1]].score = 1

\* A call <<dimension_name, score, justification>> the contract rejects: the
\* name is not canonical, or the score is no integer in 0..5.
RejectedScoreCall(a) ==
    \/ a[1] \notin DimensionNames
    \/ a[2].kind \notin {"int", "bool"}
    \/ a[2].val \notin 0..5

RejectedScoreArgs == { a \in ScoreArgs : RejectedScoreCall(a) }

\* C6: set_dimension_score with a score outside 0..5 or with a name that is
\* not canonical raises ValueError and leaves total_score and risk_category
\* as they were.
C6_BadScoreRejected ==
    [][\A a \in RejectedScoreArgs :
          \* the call read the clock as some instant, which a step shows in
          \* last_modified_date' if it stores one at all
          set_dimension_score(a[1], a[2], a[3], last_modified_date')
              => /\ last'.op = "set_dimension_score"
                 /\ last'.outcome = "ValueError"
                 /\ total_score' = total_score
                 /\ risk_category' = risk_category]_vars

\* C6 case: a call was rejected on a record whose total is not 0.
C6_Witness ==
    /\ Failed("set_dimension_score")
    /\ total_score = 30
    /\ risk_category.category = "High"

\* The ids of the items of the plan.
PlanIds(plan) == { plan[i]["id"] : i \in 1..Len(plan) }

\* C7: a successful update_mitigation_item(id, fields) keeps the length and
\* the positions of the plan, the matching item keeps the identifier id,
\* has the supplied values and is otherwise unchanged, as is every other
\* item; with no item of that id the call raises ValueError.
C7_UpdateInPlace ==
    [][\A item_id \in IdArgs, updates \in UpdateArgs, now \in 0..MaxTime :
          update_mitigation_item(item_id, updates, now) =>
             IF item_id \notin PlanIds(mitigation_plan)
             THEN last'.outcome = "ValueError"
             ELSE /\ last'.outcome = "ok"
                  /\ Len(mitigation_plan') = Len(mitigation_plan)
                  /\ \E i \in 1..Len(mitigation_plan) :
                       /\ mitigation_plan[i]["id"] = item_id
                       /\ mitigation_plan'[i]["id"] = item_id
                       /\ \A k \in DOMAIN updates :
                             mitigation_plan'[i][k] = updates[k]
                       /\ \A k \in (DOMAIN mitigation_plan[i]) \ (DOMAIN updates) :
                             mitigation_plan'[i][k] = mitigation_plan[i][k]
                       /\ \A j \in 1..Len(mitigation_plan) :
                             j # i => mitigation_plan'[j] = mitigation_plan[j]
      ]_vars

\* C8: remove_mitigation_item(id) raises ValueError when no item has the id;
\* otherwise the plan shrinks by exactly one item, the others keep their
\* order and contents, and no item with the id is left for a later update
\* or remove.
C8_RemoveExactlyOne ==
    [][\A item_id \in IdArgs, now \in 0..MaxTime :
          remove_mitigation_item(item_id, now) =>
             IF item_id \notin PlanIds(mitigation_plan)
             THEN last'.outcome = "ValueError"
             ELSE /\ last'.outcome = "ok"
                  /\ Len(mitigation_plan') = Len(mitigation_plan) - 1
                  /\ \E i \in 1..Len(mitigation_plan) :
                       /\ mitigation_plan[i]["id"] = item_id
                       /\ mitigation_plan' =
                             SubSeq(mitigation_plan, 1, i - 1)
                                \o SubSeq(mitigation_plan, i + 1,
                                          Len(mitigation_plan))
                  /\ item_id \notin PlanIds(mitigation_plan')
      ]_vars

\* C9: in every state reached by add, update and remove calls no two items
\* of the plan have the same id.
C9_UniqueIds ==
    \A i, j \in 1..Len(mitigation_plan) :
        mitigation_plan[i]["id"] = mitigation_plan[j]["id"] => i = j

\* C10: add_mitigation_item succeeds for any dimension text, returns an id
\* that no item of the plan carries, and appends the new item as the last
\* element, the earlier items and their order unchanged.
C10_AddAppendsFresh ==
    [][\A a \in AddArgs, now \in 0..MaxTime :
          add_mitigation_item(a[1], "Potential bias (Score=4)",
                              "Targeted testing", "Dev Team", "2025-06-30",
                              a[2], now) =>
             /\ last'.op = "add_mitigation_item"
             /\ last'.outcome = "ok"
             /\ last'.ret \notin PlanIds(mitigation_plan)
             /\ Len(mitigation_plan') = Len(mitigation_plan) + 1
             /\ SubSeq(mitigation_plan', 1, Len(mitigation_plan))
                   = mitigation_plan
             /\ mitigation_plan'[Len(mitigation_plan')]["id"] = last'.ret
             /\ mitigation_plan'[Len(mitigation_plan')].dimension = a[1]
             /\ mitigation_plan'[Len(mitigation_plan')].status = a[2]
      ]_vars

\* C10 case: an item with a dimension text that is not canonical was added
\* behind an item whose id had been overwritten.
C10_Witness ==
    /\ Succeeded("add_mitigation_item")
    /\ Len(mitigation_plan) = 2
    /\ mitigation_plan[2].dimension = "Explainability"
    /\ mitigation_plan[2]["id"] = last.ret
    /\ mitigation_plan[1]["id"] = 0

\* The statuses of a mitigation item (spec 3; comment at aia_core.py:178).
MitigationStatuses == {"Planned", "In Progress", "Completed", "Cancelled"}

\* C11: in every state reached by add_mitigation_item and
\* update_mitigation_item calls the status of every item of the plan is one
\* of Planned, In Progress, Completed, Cancelled.
C11_MitigationStatusEnum ==
    \A i \in 1..Len(mitigation_plan) :
        mitigation_plan[i].status \in MitigationStatuses

\* The five statuses of a record and the four of a related assessment, as
\* the contract lists them.
FiveAiaStatuses == {"Draft", "In Progress", "Review", "Approved", "Archived"}
FourRelatedStatuses == {"Not Started", "In Progress", "Completed", "N/A"}

\* C12: set_aia_status with a value that is not one of the five statuses
\* raises ValueError and leaves aia_status as it was; a new record is Draft,
\* and in every state reached through the record's methods aia_status is
\* one of the five.
C12_AiaStatusValidated ==
    /\ [](aia_status \in FiveAiaStatuses)
    /\ [](calls = 0 => aia_status = "Draft")
    /\ [][\A status \in AiaStatusArgs \ FiveAiaStatuses :
             set_aia_status(status, last_modified_date')
                => /\ last'.op = "set_aia_status"
                   /\ last'.outcome = "ValueError"
                   /\ aia_status' = aia_status]_vars

\* C12 case: a status that is not in the list was rejected after the record
\* had been moved to Approved.
C12_Witness ==
    /\ Failed("set_aia_status")
    /\ aia_status = "Approved"

\* C13: set_related_assessment_status with a status that is not one of the
\* four raises ValueError and adds no key, also for an unknown name; with one
\* of the four it succeeds and sets the name, adding it when it is unknown.
\* In every reachable state the mapping has the keys PIA, Security
\* Assessment and Human Rights Assessment, and every value is one of the
\* four statuses.
C13_RelatedStatusValidated ==
    /\ [](/\ {"PIA", "Security Assessment", "Human Rights Assessment"}
               \subseteq DOMAIN related_assessment_statuses
           /\ \A n \in DOMAIN related_assessment_statuses :
                 related_assessment_statuses[n] \in FourRelatedStatuses)
    /\ [][\A a \in RelatedStatusArgs :
             set_related_assessment_status(a[1], a[2], last_modified_date')
                => IF a[2] \notin FourRelatedStatuses
                   THEN /\ last'.outcome = "ValueError"
                        /\ related_assessment_statuses'
                              = related_assessment_statuses
                   ELSE /\ last'.outcome = "ok"
                        /\ DOMAIN related_assessment_statuses'
                              = DOMAIN related_assessment_statuses \cup {a[1]}
                        /\ related_assessment_statuses'[a[1]] = a[2]
                        /\ \A n \in DOMAIN related_assessment_statuses :
                              n # a[1] => related_assessment_statuses'[n]
                                            = related_assessment_statuses[n]
       ]_vars

\* C13 case: a status that is not in the list was rejected on a record to
\* which a name outside the predefined three had been added.
C13_Witness ==
    /\ Failed("set_related_assessment_status")
    /\ "Ethics Review" \in DOMAIN related_assessment_statuses
    /\ related_assessment_statuses["Ethics Review"] = "In Progress"

\* This step is a call of the method op that read the clock as now.
CallOf(op, now) ==
    CASE op = "set_metadata" ->
           \E a \in MetadataArgs : set_metadata(a[1], a[2], a[3], now)
      [] op = "set_system_details" ->
           \E a \in SystemDetailsArgs :
               set_system_details(a.system_name, a.agency_name, a.purpose,
                                  a.tech_specs, a.data_details,
                                  a.deployment_context, a.procurement,
                                  a.related_assessments, now)
      [] op = "set_dimension_score" ->
           \E a \in BroadScoreArgs : set_dimension_score(a[1], a[2], a[3], now)
      [] op = "add_mitigation_item" ->
           \E a \in AddArgs :
               add_mitigation_item(a[1], "Potential bias (Score=4)",
                                   "Targeted testing", "Dev Team",
                                   "2025-06-30", a[2], now)
      [] op = "update_mitigation_item" ->
           \E item_id \in IdArgs, updates \in UpdateArgs :
               update_mitigation_item(item_id, updates, now)
      [] op = "remove_mitigation_item" ->
           \E item_id \in IdArgs : remove_mitigation_item(item_id, now)
      [] op = "set_approval" ->
           \E a \in ApprovalArgs : set_approval(a[1], a[2], a[3], now)
      [] op = "set_links" ->
           \E a \in LinksArgs : set_links(a[1], a[2], now)
      [] op = "set_monitoring" ->
           \E a \in MonitoringArgs : set_monitoring(a[1], a[2], a[3], now)
      [] op = "set_aia_status" ->
           \E status \in AiaStatusArgs : set_aia_status(status, now)
      [] op = "set_related_assessment_status" ->
           \E a \in RelatedStatusArgs :
               set_related_assessment_status(a[1], a[2], now)
      [] OTHER -> FALSE

\* The eleven mutating methods of the record.
MutatorNames ==
    { "set_metadata", "set_system_details", "set_dimension_score",
      "add_mitigation_item", "update_mitigation_item",
      "remove_mitigation_item", "set_approval", "set_links", "set_monitoring",
      "set_aia_status", "set_related_assessment_status" }

\* C14: every successful call of one of the eleven mutating methods leaves
\* last_modified_date at the time the call read from the clock: a step that
\* is a successful call made at the instant now ends with
\* last_modified_date = now, whatever else the call did.
C14_LastModifiedUpdated ==
    [][(last'.outcome = "ok" /\ last'.op \in MutatorNames) =>
          /\ CallOf(last'.op, last_modified_date')
          /\ \A now \in 0..MaxTime :
                CallOf(last'.op, now) => last_modified_date' = now]_vars

\* C14 case: a successful call made after the instant of construction has
\* moved last_modified_date away from creation_date.
C14_Witness ==
    /\ Succeeded("set_links")
    /\ last_modified_date = 1
    /\ creation_date = 0

\* Every key of old that supplied does not name is in new with its old value.
KeptOutside(old, new, supplied) ==
    \A k \in (DOMAIN old) \ (DOMAIN supplied) :
        k \in DOMAIN new /\ new[k] = old[k]

\* new is old patched by supplied: untouched when nothing is supplied,
\* otherwise the supplied keys have the supplied values and the rest is kept.
Patched(old, new, supplied) ==
    IF DOMAIN supplied = {} THEN new = old
    ELSE /\ KeptOutside(old, new, supplied)
         /\ \A k \in DOMAIN supplied : k \in DOMAIN new /\ new[k] = supplied[k]

\* A text field after a call that may supply it: "" is the argument left out.
PatchedText(old, new, supplied) ==
    IF supplied = "" THEN new = old ELSE new = supplied

\* C15: set_approval leaves a role slot that is not supplied untouched and
\* changes only the supplied keys of a supplied slot; set_system_details
\* changes only the top-level fields and nested keys that are supplied.
\* Neither changes any other field of the record but last_modified_date.
C15_ApprovalAndDetailsPatch ==
    [][/\ \A a \in ApprovalArgs :
             set_approval(a[1], a[2], a[3], last_modified_date') =>
                /\ Patched(approvals.assessor, approvals'.assessor, a[1])
                /\ Patched(approvals.reviewer, approvals'.reviewer, a[2])
                /\ Patched(approvals.approver, approvals'.approver, a[3])
                /\ DOMAIN approvals' = DOMAIN approvals
                /\ UNCHANGED << metaVars, descVars, scoreVars, planVars,
                                ai_inventory_ref, transparency_statement_link,
                                monitorVars, statusVars, creation_date, identVars >>
       /\ \A a \in SystemDetailsArgs :
             set_system_details(a.system_name, a.agency_name, a.purpose,
                                a.tech_specs, a.data_details,
                                a.deployment_context, a.procurement,
                                a.related_assessments, last_modified_date') =>
                /\ PatchedText(system_name, system_name', a.system_name)
                /\ PatchedText(agency_name, agency_name', a.agency_name)
                /\ PatchedText(system_purpose, system_purpose', a.purpose)
                /\ Patched(technical_specs, technical_specs', a.tech_specs)
                /\ Patched(data_details, data_details', a.data_details)
                /\ Patched(deployment_context, deployment_context',
                           a.deployment_context)
                /\ Patched(procurement, procurement', a.procurement)
                /\ KeptOutside(related_assessments, related_assessments',
                               a.related_assessments)
                /\ UNCHANGED << metaVars, scoreVars, planVars, approvalVars,
                                monitorVars, statusVars, creation_date, identVars >>
      ]_vars

\* C15 case: a second set_system_details call has patched a record that an
\* earlier call and a set_approval call had filled in part.
C15_Witness ==
    /\ Succeeded("set_system_details")
    /\ system_name = "Claims Triage"
    /\ agency_name = "Dept X"
    /\ technical_specs.model_type = "GBM"
    /\ technical_specs.algorithms = "XGBoost"
    /\ approvals.assessor.name = "Ann"
    /\ approvals.assessor.date = ""

\* C16: set_links, set_monitoring and set_metadata are patches: the field of
\* an argument that a call leaves out (it then has its default, "" or None)
\* keeps the value it had before the call.
C16_OmittedArgumentsKept ==
    [][/\ \A a \in LinksArgs :
             set_links(a[1], a[2], last_modified_date') =>
                /\ a[1] = "" => ai_inventory_ref' = ai_inventory_ref
                /\ a[2] = "" => transparency_statement_link'
                                   = transparency_statement_link
       /\ \A a \in MonitoringArgs :
             set_monitoring(a[1], a[2], a[3], last_modified_date') =>
                /\ a[1] = "" => monitoring_plan_ref' = monitoring_plan_ref
                /\ a[2] = "" => review_frequency' = review_frequency
                /\ a[3] = "" => next_review_date' = next_review_date
       /\ \A a \in MetadataArgs :
             set_metadata(a[1], a[2], a[3], last_modified_date') =>
                /\ a[2] = "" => referenced_frameworks' = referenced_frameworks
                /\ a[3] = PyNone => assessment_date' = assessment_date
      ]_vars

\* The static permission set of a role of the table.
StaticPermissionSet(role) ==
    { ROLE_PERMISSIONS[role][i] : i \in 1..Len(ROLE_PERMISSIONS[role]) }

\* The four roles.
KnownRoles == {"admin", "reviewer", "assessor", "viewer"}

\* C17: has_permission is true if and only if the token is in the static
\* permission set of the role; for a role that is no key of the role table
\* it is false for every token, and user_has_permission is false for an
\* email that has no user. Checked for every user, email and token in every
\* state of the AuthManager.
C17_PermissionLookup ==
    /\ \A email \in DOMAIN users, permission \in PermissionArgs :
          /\ has_permission(users[email], permission) =
                (/\ users[email].role \in KnownRoles
                 /\ permission \in StaticPermissionSet(users[email].role))
          /\ users[email].role \notin DOMAIN ROLE_PERMISSIONS
                => ~has_permission(users[email], permission)
          /\ user_has_permission_value(email, permission)
                = has_permission(users[email], permission)
    /\ \A email \in EmailArgs \ DOMAIN users, permission \in PermissionArgs :
          ~user_has_permission_value(email, permission)
    /\ Succeeded("user_has_permission") => last.ret \in {PyTrue, PyFalse}

\* C17 case: a permission of a user whose role is no key of the table has
\* been checked and denied.
C17_Witness ==
    /\ Succeeded("user_has_permission")
    /\ last.ret = PyFalse
    /\ "ann@agency.gov" \in DOMAIN users
    /\ users["ann@agency.gov"].role = UnknownRole
    /\ users["admin@example.com"].role = "viewer"

\* C18: a viewer does not have EDIT_AIA; an admin has every defined
\* permission token, among them every permission that get_all_permissions
\* returns; a user whose role is not one of the four has no token.
C18_RoleMatrix ==
    \A email \in DOMAIN users :
        /\ users[email].role = "viewer"
              => ~has_permission(users[email], Permissions.EDIT_AIA)
        /\ users[email].role = "admin"
              => \A permission \in PermissionValues \cup get_all_permissions :
                    has_permission(users[email], permission)
        /\ users[email].role \notin KnownRoles
              => \A permission \in PermissionArgs :
                    ~has_permission(users[email], permission)

(***************************************************************************)
(* SpecDb: the register, the record at hand, and the calls of the edit     *)
(* page and of the loader on them                                          *)
(***************************************************************************)

\* The largest number of rows the table ever holds in a run.
MaxSystems == 2

\* The identifiers a caller asks the register for.
SystemIdArgs == 1..MaxSystems

\* An instant no earlier than any date of the record or of the register.
DbNow ==
    { t \in 0..MaxTime :
        /\ t >= last_modified_date
        /\ \A i \in DOMAIN ai_systems : t >= ai_systems[i].last_modified_date }

\* The status that the edit page sets on a record read from the register.
DbAiaStatusArgs == {"Review"}

\* The score calls of the edit page: one accepted, one rejected.
DbScoreArgs ==
    { << DIMENSIONS[1], PyInt(5), "worst case" >>,
      << DIMENSIONS[1], PyInt(6), "rejected" >> }

\* Values that an assignment to a public attribute can put into a score, the
\* total and the category, past the setters.
DriftScore == 7
DriftTotal == 99
DriftCategory == [category |-> "High", action |-> RISK_CATEGORIES[3].action]

\* aia.dimensions[d]["score"] = v, aia.total_score = v or
\* aia.risk_category = c, written by a caller.
DirectFieldMutation ==
    /\ \/ /\ dimensions' = [dimensions EXCEPT ![DIMENSIONS[1]].score = DriftScore]
          /\ UNCHANGED << total_score, risk_category >>
       \/ /\ total_score' = DriftTotal
          /\ UNCHANGED << dimensions, risk_category >>
       \/ /\ risk_category' = DriftCategory
          /\ UNCHANGED << dimensions, total_score >>
    /\ last' = Returned("direct_field_mutation", NoRet)
    /\ UNCHANGED << metaVars, descVars, planVars, approvalVars, monitorVars,
                    statusVars, dateVars, identVars, dbVars >>

\* aia_obj.system_id = system_id, with the value add_system just returned.
AssignSystemId ==
    /\ Succeeded("add_system")
    /\ system_id' = last.ret
    /\ last' = Returned("assign_system_id", NoRet)
    /\ UNCHANGED << metaVars, descVars, scoreVars, planVars, approvalVars,
                    monitorVars, statusVars, dateVars, aia_version, dbVars >>

\* The save button of the edit page: recompute, date, db.update_aia(aia);
\* the exception of update_aia is caught and shown.
SaveButton ==
    \E now \in DbNow :
        /\ total_score' = _calculate_total_score(dimensions)
        /\ risk_category' = _determine_risk_category(total_score')
        /\ last_modified_date' = now
        /\ IF system_id = NoSystemId
           THEN /\ last' = Raised("save_button", "ValueError")
                /\ UNCHANGED dbVars
           ELSE /\ ai_systems' =
                       UpdateRow(ai_systems,
                                 [__dict__ EXCEPT
                                    !.total_score = total_score',
                                    !.risk_category = risk_category',
                                    !.last_modified_date = now])
                /\ last' = Returned("save_button", NoRet)
                /\ UNCHANGED sqlite_sequence
        /\ UNCHANGED << metaVars, descVars, dimensions, planVars, approvalVars,
                        monitorVars, statusVars, creation_date, identVars >>

AddSystem ==
    /\ sqlite_sequence < MaxSystems
    /\ \E now \in DbNow : add_system("Triage Assistant", "Health", now)

GetAiaObject == \E id \in SystemIdArgs : get_aia_object(id)

UpdateAia == \E now \in DbNow : update_aia(now)

DeleteSystem == \E id \in SystemIdArgs : delete_system(id)

GenerateReport == generate_report /\ UNCHANGED dbVars

UpdateRiskAssessment == _update_risk_assessment /\ UNCHANGED dbVars

SetDimensionScoreDb ==
    /\ \E a \in DbScoreArgs, now \in DbNow :
          set_dimension_score(a[1], a[2], a[3], now)
    /\ UNCHANGED dbVars

\* The status selectbox of the edit page, on the record at hand.
SetAiaStatusDb ==
    /\ \E status \in DbAiaStatusArgs, now \in DbNow :
          /\ status # aia_status
          /\ set_aia_status(status, now)
    /\ UNCHANGED dbVars

\* One more call is made; the AuthManager is left alone.
DbFrame ==
    /\ calls < MaxCalls
    /\ calls' = calls + 1
    /\ UNCHANGED << authVars, sessVars >>

\* A new record is at hand and the register is new or holds the row that
\* add_system made for one system at time 0; or the record at hand is the
\* one get_aia_object made from that row.
InitDb ==
    /\ \/ InitRecord("[System Name]", "[Agency Name]")
       \/ /\ InitData("Triage Assistant", "Health")
          /\ total_score = 0
          /\ system_id = 1
    /\ uuid_count = 0
    /\ last = Returned("__init__", NoRet)
    /\ calls = 0
    /\ users = EmptyDict
    /\ users_file = NoFile
    /\ sessions = NoSessions
    /\ \/ system_id = NoSystemId /\ init_db
       \/ /\ ai_systems = [i \in {1} |-> NewRow(1, "Triage Assistant", "Health", 0)]
          /\ sqlite_sequence = 1

NextDb ==
    \/ AddSystem /\ DbFrame
    \/ AssignSystemId /\ DbFrame
    \/ GetAiaObject /\ DbFrame
    \/ UpdateAia /\ DbFrame
    \/ DeleteSystem /\ DbFrame
    \/ SaveButton /\ DbFrame
    \/ GenerateReport /\ DbFrame
    \/ UpdateRiskAssessment /\ DbFrame
    \/ SetDimensionScoreDb /\ DbFrame
    \/ SetAiaStatusDb /\ DbFrame
    \/ DirectFieldMutation /\ DbFrame

SpecDb == InitDb /\ [][NextDb]_vars

\* The derived fields of a record dict agree with its scores.
Recomputed(obj) ==
    /\ obj.total_score = _calculate_total_score(obj.dimensions)
    /\ obj.risk_category = _determine_risk_category(obj.total_score)

\* C19: two calls of _update_risk_assessment in a row leave total_score and
\* risk_category after the second as they were after the first, and a call
\* of it changes no field of the record but these two.
C19_RecomputationIdempotent ==
    [][last'.op = "_update_risk_assessment" =>
          /\ UNCHANGED << metaVars, descVars, dimensions, planVars,
                          approvalVars, monitorVars, statusVars, dateVars,
                          identVars >>
          /\ last.op = "_update_risk_assessment" =>
                UNCHANGED << total_score, risk_category >>]_vars

\* C19 case: the derived fields had drifted, the recomputation has been
\* called twice, and both fields differ from the drifted values.
C19_Witness ==
    /\ calls = 3
    /\ last.op = "_update_risk_assessment"
    /\ dimensions[DIMENSIONS[1]].score = DriftScore
    /\ total_score = DriftScore
    /\ risk_category.category = "Low"

\* C20: the JSON of every row of the register, and its total_score and
\* risk_category columns, carry the sum of the row's dimension scores and
\* the classification of that sum; the record that update_aia has just
\* written and the values that generate_report has just printed do too.
C20_RecomputedBeforeExposure ==
    /\ \A i \in DOMAIN ai_systems :
          LET snapshot == json_loads(ai_systems[i].aia_data)
          IN  /\ Recomputed(snapshot)
              /\ ai_systems[i].total_score = snapshot.total_score
              /\ ai_systems[i].risk_category = snapshot.risk_category.category
    /\ Succeeded("update_aia") => Recomputed(__dict__)
    /\ Succeeded("generate_report") =>
          /\ last.ret.total_score = _calculate_total_score(dimensions)
          /\ last.ret.category =
                _determine_risk_category(last.ret.total_score).category
          /\ last.ret.action =
                _determine_risk_category(last.ret.total_score).action

\* C20 case: a score was assigned past the setter to a record loaded from
\* the register, and update_aia has written the row.
C20_Witness ==
    /\ Succeeded("update_aia")
    /\ system_id = 1
    /\ 1 \in DOMAIN ai_systems
    /\ json_loads(ai_systems[1].aia_data).dimensions[DIMENSIONS[1]].score
          = DriftScore
    /\ ai_systems[1].total_score = DriftScore

\* C21: update_aia of a record without system_id raises ValueError and
\* leaves every row and the row counter as they were; update_aia of a
\* record with the system_id of a row returns, makes the JSON of that row
\* the JSON of the whole record as it is after the call, and leaves every
\* other row and the set of rows as they were.
C21_UpdateAiaGuardsAndOverwrites ==
    [][last'.op = "update_aia" =>
          IF system_id = NoSystemId
          THEN /\ last'.outcome = "ValueError"
               /\ UNCHANGED dbVars
          ELSE /\ last'.outcome = "ok"
               /\ DOMAIN ai_systems' = DOMAIN ai_systems
               /\ \A i \in DOMAIN ai_systems :
                     IF i = system_id
                     THEN ai_systems'[i].aia_data = json_dumps(__dict__')
                     ELSE ai_systems'[i] = ai_systems[i]]_vars

\* C21 case: of two rows, the second has been overwritten by update_aia
\* with a record that was not made from it, and the first is as add_system
\* left it.
C21_Witness ==
    /\ Succeeded("update_aia")
    /\ system_id = 2
    /\ DOMAIN ai_systems = {1, 2}
    /\ json_loads(ai_systems[2].aia_data).system_name = "[System Name]"
    /\ json_loads(ai_systems[1].aia_data).system_name = "Triage Assistant"

\* The filters a caller of get_system_list passes.
FilterArgs ==
    { EmptyDict,
      [k \in {"aia_status"} |-> "Draft"],
      [k \in {"agency_name", "owner"} |->
          IF k = "agency_name" THEN "Health" ELSE "nobody"] }

\* The system_id values of a result of get_system_list.
ListedIds(filters) == { s.system_id : s \in get_system_list(ai_systems, filters) }

\* C22: delete_system(id) returns True exactly when a row with that id
\* existed; after it the table has no row with that id, so that
\* get_aia_object(id) returns None, no list of get_system_list names the id
\* and a further delete_system(id) returns False; every other row is as it
\* was.
C22_DeleteSystem ==
    /\ [][\A id \in SystemIdArgs :
            delete_system(id) =>
               /\ last'.ret = BoolRet(id \in DOMAIN ai_systems)
               /\ DOMAIN ai_systems' = (DOMAIN ai_systems) \ {id}
               /\ \A i \in DOMAIN ai_systems' : ai_systems'[i] = ai_systems[i]]_vars
    /\ [][\A id \in SystemIdArgs \ DOMAIN ai_systems :
            /\ get_aia_object(id) =>
                  last' = Returned("get_aia_object", PyNone)
            /\ delete_system(id) =>
                  last' = Returned("delete_system", PyFalse)]_vars
    /\ [](\A id \in SystemIdArgs \ DOMAIN ai_systems, filters \in FilterArgs :
            id \notin ListedIds(filters))

\* C22 case: of two rows the first has been deleted, delete_system has
\* returned True, and the second row is still listed.
C22_Witness ==
    /\ Succeeded("delete_system")
    /\ last.ret = PyTrue
    /\ DOMAIN ai_systems = {2}
    /\ ListedIds(EmptyDict) = {2}

(***************************************************************************)
(* app.py: browser sessions on the register                                *)
(***************************************************************************)

\* st.session_state.current_aia: None, or the object the edit page works on.
NoAia == [loaded |-> FALSE]
Loaded(obj) == [loaded |-> TRUE, aia |-> obj]

\* The session state after login, before any page was used: current_user is
\* the user of the session's email, looked up at each run of the script.
NewSession(role) ==
    [current_user |-> [role |-> role],
     selected_system_id |-> NoSystemId,
     current_aia |-> NoAia]

\* A session in which every permission is granted.
Can_everything(s, permission) == TRUE

\* current_user.has_permission(permission) in the session s.
Can(s, permission) == has_permission(sessions[s].current_user, permission)

\* The object that get_aia_object(id) builds from the row id of the table.
LoadedAia(table, id) ==
    [json_loads(table[id].aia_data) EXCEPT !.system_id = id]

\* An object after _update_risk_assessment() and the assignment of
\* last_modified_date.
Saved(obj, now) ==
    [obj EXCEPT
       !.total_score = _calculate_total_score(obj.dimensions),
       !.risk_category =
           _determine_risk_category(_calculate_total_score(obj.dimensions)),
       !.last_modified_date = now]

\* The setters of the record, applied to the object of a session; the edit
\* page catches their ValueError and shows it, the object being as it was.
set_aia_status_of(obj, status, now) ==
    IF status \notin AiaStatuses
    THEN obj
    ELSE [obj EXCEPT !.aia_status = status, !.last_modified_date = now]

set_related_assessment_status_of(obj, assessment_name, status, now) ==
    IF status \notin RelatedStatuses
    THEN obj
    ELSE [obj EXCEPT
            !.related_assessment_statuses =
                DictUpdate(@, [k \in {assessment_name} |-> status]),
            !.last_modified_date = now]

set_dimension_score_of(obj, dimension_name, score, justification, now) ==
    IF dimension_name \notin DOMAIN obj.dimensions
    THEN obj
    ELSE IF ~IsInstanceInt(score) \/ ~(0 <= score.val /\ score.val <= 5)
    THEN obj
    ELSE Saved([obj EXCEPT
                  !.dimensions[dimension_name] =
                      [score |-> score.val, justification |-> justification]],
               now)

add_mitigation_item_of(obj, item, now) ==
    [obj EXCEPT
       !.mitigation_plan = AppendItem(@, item),
       !.last_modified_date = now]

remove_mitigation_item_of(obj, item_id, now) ==
    IF Len(WithoutId(obj.mitigation_plan, item_id)) = Len(obj.mitigation_plan)
    THEN obj
    ELSE [obj EXCEPT
            !.mitigation_plan = WithoutId(@, item_id),
            !.last_modified_date = now]

\* The sessions a run has.
TwoSessions == {"A", "B"}

\* An instant no earlier than any date of the register or of a session.
AppNow ==
    { t \in 0..MaxTime :
        /\ \A i \in DOMAIN ai_systems : t >= ai_systems[i].last_modified_date
        /\ \A s \in DOMAIN sessions :
              sessions[s].current_aia.loaded
                 => t >= sessions[s].current_aia.aia.last_modified_date }

\* What a run of the script did in the session s: the call it made on the
\* record or on the register, and how the call ended.
Handled(s, op, outcome) ==
    [op |-> op, outcome |-> outcome, ret |-> NoRet, session |-> s]

\* The edit page of the session s has an object to work on.
OnEditPage(s) ==
    /\ Can(s, Permissions.VIEW_AIA)
    /\ sessions[s].current_aia.loaded

\* The object of the session s becomes obj; the register is not touched.
EditInSession(s, op, obj) ==
    /\ sessions' = [sessions EXCEPT ![s].current_aia = Loaded(obj)]
    /\ last' = Handled(s, op, "ok")
    /\ UNCHANGED << recordVars, uuid_count, dbVars, authVars >>

\* "Go to Details" on a row of the register.
AppGoToDetails(s) ==
    \E id \in DOMAIN ai_systems :
        /\ Can(s, Permissions.VIEW_REGISTER)
        /\ Can(s, Permissions.VIEW_AIA)
        /\ sessions' = [sessions EXCEPT ![s].selected_system_id = id,
                                        ![s].current_aia = NoAia]
        /\ last' = Handled(s, "go_to_details", "ok")
        /\ UNCHANGED << recordVars, uuid_count, dbVars, authVars >>

\* The edit page loads the selected system when the session has no object
\* or one of another system.
AppLoad(s) ==
    LET selected == sessions[s].selected_system_id
        current == sessions[s].current_aia
    IN  /\ Can(s, Permissions.VIEW_AIA)
        /\ selected # NoSystemId
        /\ IF current.loaded THEN current.aia.system_id # selected ELSE TRUE
        /\ sessions' = [sessions EXCEPT ![s].current_aia =
                           IF selected \in DOMAIN ai_systems
                           THEN Loaded(LoadedAia(ai_systems, selected))
                           ELSE NoAia]
        /\ last' = Handled(s, "get_aia_object", "ok")
        /\ UNCHANGED << recordVars, uuid_count, dbVars, authVars >>

\* The values the widgets of the edit page hand to the record.
AppAiaStatusArgs == {"Review"}
AppRelatedStatusArg == << "PIA", "Completed" >>
AppScoreArg == << DIMENSIONS[1], PyInt(5), "worst case" >>
AppFrameworks == "NIST AI RMF"
AppPurpose == "Ranks referrals for triage"
AppReviewFrequency == "Every 12 months"
AppDecision == "Approved with Conditions"

\* The selectbox of the overall status.
AppSetAiaStatus(s) ==
    \E status \in AppAiaStatusArgs, now \in AppNow :
        /\ OnEditPage(s)
        /\ Can(s, Permissions.CHANGE_STATUS)
        /\ status # sessions[s].current_aia.aia.aia_status
        /\ EditInSession(s, "set_aia_status",
              set_aia_status_of(sessions[s].current_aia.aia, status, now))

\* The selectbox of a related assessment.
AppSetRelatedAssessmentStatus(s) ==
    \E now \in AppNow :
        /\ OnEditPage(s)
        /\ Can(s, Permissions.CHANGE_STATUS)
        /\ sessions[s].current_aia.aia
              .related_assessment_statuses[AppRelatedStatusArg[1]]
                 # AppRelatedStatusArg[2]
        /\ EditInSession(s, "set_related_assessment_status",
              set_related_assessment_status_of(
                  sessions[s].current_aia.aia, AppRelatedStatusArg[1],
                  AppRelatedStatusArg[2], now))

\* The slider and the justification of a dimension.
AppSetDimensionScore(s) ==
    \E now \in AppNow :
        /\ OnEditPage(s)
        /\ Can(s, Permissions.EDIT_AIA)
        /\ sessions[s].current_aia.aia.dimensions[AppScoreArg[1]]
              # [score |-> AppScoreArg[2].val, justification |-> AppScoreArg[3]]
        /\ EditInSession(s, "set_dimension_score",
              set_dimension_score_of(sessions[s].current_aia.aia,
                  AppScoreArg[1], AppScoreArg[2], AppScoreArg[3], now))

\* The form "Add New Mitigation Item".
AppAddMitigationItem(s) ==
    \E now \in AppNow :
        LET item == [id |-> uuid4(uuid_count),
                     dimension |-> DIMENSIONS[1],
                     risk_score_desc |-> "score 5",
                     action |-> "human review",
                     responsible |-> "clinical lead",
                     target_date |-> "2025-06-30",
                     status |-> "Planned"]
        IN  /\ OnEditPage(s)
            /\ Can(s, Permissions.EDIT_AIA)
            /\ uuid_count < MaxAdds
            /\ uuid_count' = uuid_count + 1
            /\ sessions' = [sessions EXCEPT ![s].current_aia =
                   Loaded(add_mitigation_item_of(sessions[s].current_aia.aia,
                                                 item, now))]
            /\ last' = Handled(s, "add_mitigation_item", "ok")
            /\ UNCHANGED << recordVars, dbVars, authVars >>

\* The delete button of a listed mitigation item.
AppRemoveMitigationItem(s) ==
    \E now \in AppNow :
        /\ OnEditPage(s)
        /\ Can(s, Permissions.EDIT_AIA)
        /\ sessions[s].current_aia.aia.mitigation_plan # << >>
        /\ EditInSession(s, "remove_mitigation_item",
              remove_mitigation_item_of(sessions[s].current_aia.aia,
                  sessions[s].current_aia.aia.mitigation_plan[1].id, now))

\* The text inputs of the metadata, description and monitoring tabs, which
\* assign to the fields of the object.
AppEditMetadata(s) ==
    /\ OnEditPage(s)
    /\ Can(s, Permissions.EDIT_AIA)
    /\ EditInSession(s, "edit_metadata",
          [sessions[s].current_aia.aia EXCEPT
             !.referenced_frameworks = AppFrameworks])

AppEditDescription(s) ==
    /\ OnEditPage(s)
    /\ Can(s, Permissions.EDIT_AIA)
    /\ EditInSession(s, "edit_description",
          [sessions[s].current_aia.aia EXCEPT !.system_purpose = AppPurpose])

AppEditMonitoring(s) ==
    /\ OnEditPage(s)
    /\ Can(s, Permissions.EDIT_AIA)
    /\ EditInSession(s, "edit_monitoring",
          [sessions[s].current_aia.aia EXCEPT
             !.review_frequency = AppReviewFrequency])

\* The inputs of the approval tab.
AppEditApproval(s) ==
    /\ OnEditPage(s)
    /\ Can(s, Permissions.EDIT_AIA) /\ Can(s, Permissions.APPROVE_AIA)
    /\ EditInSession(s, "edit_approval",
          [sessions[s].current_aia.aia EXCEPT
             !.approvals.approver.decision = AppDecision])

\* A save button that keeps the stored status of the row it writes.
AppSave_keep_stored_status(s) ==
    \E now \in AppNow :
        LET obj == Saved(sessions[s].current_aia.aia, now)
            merged == IF obj.system_id \in DOMAIN ai_systems
                      THEN [obj EXCEPT !.aia_status =
                               ai_systems[obj.system_id].aia_status]
                      ELSE obj
        IN  /\ OnEditPage(s)
            /\ Can(s, Permissions.EDIT_AIA)
            /\ sessions' = [sessions EXCEPT ![s].current_aia = Loaded(obj)]
            /\ last' = Handled(s, "update_aia", "ok")
            /\ ai_systems' = UpdateRow(ai_systems, merged)
            /\ UNCHANGED << recordVars, uuid_count, sqlite_sequence, authVars >>

\* The save button: recompute, date, db.update_aia(aia).
AppSave(s) ==
    \E now \in AppNow :
        LET obj == Saved(sessions[s].current_aia.aia, now)
        IN  /\ OnEditPage(s)
            /\ Can(s, Permissions.EDIT_AIA)
            /\ sessions' = [sessions EXCEPT ![s].current_aia = Loaded(obj)]
            /\ IF obj.system_id = NoSystemId
               THEN /\ last' = Handled(s, "update_aia", "ValueError")
                    /\ UNCHANGED ai_systems
               ELSE /\ last' = Handled(s, "update_aia", "ok")
                    /\ ai_systems' = UpdateRow(ai_systems, obj)
            /\ UNCHANGED << recordVars, uuid_count, sqlite_sequence, authVars >>

\* The delete button, confirmed: on success the session leaves the page.
AppDelete(s) ==
    LET id == sessions[s].current_aia.aia.system_id
    IN  /\ OnEditPage(s)
        /\ Can(s, Permissions.DELETE_SYSTEM)
        /\ ai_systems' = [i \in (DOMAIN ai_systems) \ {id} |-> ai_systems[i]]
        /\ sessions' = IF id \in DOMAIN ai_systems
                       THEN [sessions EXCEPT
                               ![s].selected_system_id = NoSystemId,
                               ![s].current_aia = NoAia]
                       ELSE sessions
        /\ last' = Handled(s, "delete_system", "ok")
        /\ UNCHANGED << recordVars, uuid_count, sqlite_sequence, authVars >>

\* The form "Add New System" of the sidebar.
AppAddSystem(s) ==
    \E now \in AppNow :
        LET id == lastrowid(ai_systems, sqlite_sequence)
        IN  /\ Can(s, Permissions.ADD_SYSTEM)
            /\ sqlite_sequence < MaxSystems
            /\ ai_systems' = [i \in (DOMAIN ai_systems) \cup {id} |->
                                 IF i = id
                                 THEN NewRow(id, "Triage Assistant", "Health", now)
                                 ELSE ai_systems[i]]
            /\ sqlite_sequence' = id
            /\ sessions' = [sessions EXCEPT ![s].selected_system_id = id,
                                            ![s].current_aia = NoAia]
            /\ last' = Handled(s, "add_system", "ok")
            /\ UNCHANGED << recordVars, uuid_count, authVars >>

(***************************************************************************)
(* SpecSessions: two editors on one register                               *)
(***************************************************************************)

\* A session that has gone to the details of the system id and has the
\* object obj on its edit page.
EditingSession(role, id, obj) ==
    [current_user |-> [role |-> role],
     selected_system_id |-> id,
     current_aia |-> Loaded(obj)]

\* The register holds one system, added at time 0. An admin and a reviewer
\* have both loaded it on their edit pages; the admin may have changed the
\* status and the reviewer the purpose, neither has saved.
InitSessions ==
    /\ InitRecord("[System Name]", "[Agency Name]")
    /\ uuid_count = 0
    /\ last = Returned("__init__", NoRet)
    /\ calls = 0
    /\ users = EmptyDict
    /\ users_file = NoFile
    /\ ai_systems = [i \in {1} |-> NewRow(1, "Triage Assistant", "Health", 0)]
    /\ sqlite_sequence = 1
    /\ \E a \in { LoadedAia(ai_systems, 1),
                   set_aia_status_of(LoadedAia(ai_systems, 1), "Review", 0) },
          b \in { LoadedAia(ai_systems, 1),
                  [LoadedAia(ai_systems, 1) EXCEPT !.system_purpose = AppPurpose] } :
          sessions = [s \in TwoSessions |->
                         IF s = "A" THEN EditingSession("admin", 1, a)
                                    ELSE EditingSession("reviewer", 1, b)]

GoToDetails == \E s \in DOMAIN sessions : AppGoToDetails(s)
LoadSelected == \E s \in DOMAIN sessions : AppLoad(s)
ChangeAiaStatus == \E s \in DOMAIN sessions : AppSetAiaStatus(s)
EditDescription == \E s \in DOMAIN sessions : AppEditDescription(s)
SaveChanges == \E s \in DOMAIN sessions : AppSave(s)
DeleteSelected == \E s \in DOMAIN sessions : AppDelete(s)
AddNewSystem == \E s \in DOMAIN sessions : AppAddSystem(s)

\* One more run of the script is made in some session.
AppFrame == calls < MaxCalls /\ calls' = calls + 1

NextSessions ==
    \/ GoToDetails /\ AppFrame
    \/ LoadSelected /\ AppFrame
    \/ ChangeAiaStatus /\ AppFrame
    \/ EditDescription /\ AppFrame
    \/ SaveChanges /\ AppFrame
    \/ DeleteSelected /\ AppFrame
    \/ AddNewSystem /\ AppFrame

SpecSessions == InitSessions /\ [][NextSessions]_vars

\* The snapshot the register holds for the object obj.
Stored(obj) == json_loads(ai_systems[obj.system_id].aia_data)

\* C23: a save is never rejected, and after every save the stored snapshot
\* of the row is, field for field, the object of the session that saved:
\* whatever another session had saved before is gone unless that object
\* holds it too.
C23_LastWriterWins ==
    last.op = "update_aia" =>
        LET obj == sessions[last.session].current_aia.aia
        IN  /\ last.outcome = "ok"
            /\ obj.system_id \in DOMAIN ai_systems => Stored(obj) = obj

\* C23 case: both sessions had loaded the system, the admin changed the
\* status and the reviewer the purpose; the reviewer has saved last, and the
\* stored snapshot has the reviewer's purpose and not the admin's status.
C23_Witness ==
    /\ last.op = "update_aia"
    /\ last.session = "B"
    /\ calls = 2
    /\ sessions["A"].current_aia.loaded
    /\ sessions["A"].current_aia.aia.system_id = 1
    /\ sessions["A"].current_aia.aia.aia_status = "Review"
    /\ sessions["A"].current_aia.aia.last_modified_date = 1
    /\ 1 \in DOMAIN ai_systems
    /\ ai_systems[1].aia_status = "Draft"
    /\ json_loads(ai_systems[1].aia_data).aia_status = "Draft"
    /\ json_loads(ai_systems[1].aia_data).system_purpose = AppPurpose

InitApp ==
    /\ InitRecord("[System Name]", "[Agency Name]")
    /\ uuid_count = 0
    /\ last = Returned("__init__", NoRet)
    /\ calls = 0
    /\ users = EmptyDict
    /\ users_file = NoFile
    /\ ai_systems = [i \in {1} |-> NewRow(1, "Triage Assistant", "Health", 0)]
    /\ sqlite_sequence = 1
    /\ \E role \in RoleArgs :
          sessions = [s \in {"A"} |->
                         IF has_permission([role |-> role], Permissions.VIEW_AIA)
                         THEN EditingSession(role, 1, LoadedAia(ai_systems, 1))
                         ELSE NewSession(role)]

ChangeRelatedAssessmentStatus ==
    \E s \in DOMAIN sessions : AppSetRelatedAssessmentStatus(s)
ChangeDimensionScore == \E s \in DOMAIN sessions : AppSetDimensionScore(s)
AddMitigation == \E s \in DOMAIN sessions : AppAddMitigationItem(s)
RemoveMitigation == \E s \in DOMAIN sessions : AppRemoveMitigationItem(s)
EditMetadata == \E s \in DOMAIN sessions : AppEditMetadata(s)
EditMonitoring == \E s \in DOMAIN sessions : AppEditMonitoring(s)
EditApproval == \E s \in DOMAIN sessions : AppEditApproval(s)

NextApp ==
    \/ GoToDetails /\ AppFrame
    \/ LoadSelected /\ AppFrame
    \/ ChangeAiaStatus /\ AppFrame
    \/ ChangeRelatedAssessmentStatus /\ AppFrame
    \/ ChangeDimensionScore /\ AppFrame
    \/ AddMitigation /\ AppFrame
    \/ RemoveMitigation /\ AppFrame
    \/ EditMetadata /\ AppFrame
    \/ EditDescription /\ AppFrame
    \/ EditMonitoring /\ AppFrame
    \/ EditApproval /\ AppFrame
    \/ SaveChanges /\ AppFrame
    \/ DeleteSelected /\ AppFrame
    \/ AddNewSystem /\ AppFrame

SpecApp == InitApp /\ [][NextApp]_vars

\* The roles whose list in ROLE_PERMISSIONS holds the permission.
RolesHolding(permission) ==
    { role \in DOMAIN ROLE_PERMISSIONS :
         InList(permission, ROLE_PERMISSIONS[role]) }

\* The calls the edit page makes on the object for each kind of edit.
StatusCalls == {"set_aia_status", "set_related_assessment_status"}
ContentCalls ==
    {"set_dimension_score", "add_mitigation_item", "remove_mitigation_item",
     "edit_metadata", "edit_description", "edit_monitoring"}

\* C25: the application calls set_aia_status and
\* set_related_assessment_status only for a role that holds CHANGE_STATUS;
\* edits dimensions, mitigation items, metadata, description and monitoring
\* only for EDIT_AIA; edits approvals only for EDIT_AIA and APPROVE_AIA;
\* calls delete_system only for DELETE_SYSTEM, add_system only for
\* ADD_SYSTEM and update_aia only for EDIT_AIA; so the register changes in
\* no step of a viewer or of a user whose role is none of the four.
C25_PermissionGating ==
    [][(last'.op \in StatusCalls \cup ContentCalls
                     \cup {"edit_approval", "delete_system", "add_system",
                           "update_aia"}
        \/ dbVars' # dbVars) =>
          LET role == sessions[last'.session].current_user.role
              op == last'.op
          IN  /\ op \in StatusCalls
                    => role \in RolesHolding(Permissions.CHANGE_STATUS)
              /\ op \in ContentCalls
                    => role \in RolesHolding(Permissions.EDIT_AIA)
              /\ op = "edit_approval"
                    => role \in RolesHolding(Permissions.EDIT_AIA)
                                  \cap RolesHolding(Permissions.APPROVE_AIA)
              /\ op = "delete_system"
                    => role \in RolesHolding(Permissions.DELETE_SYSTEM)
              /\ op = "add_system"
                    => role \in RolesHolding(Permissions.ADD_SYSTEM)
              /\ op = "update_aia"
                    => role \in RolesHolding(Permissions.EDIT_AIA)
              /\ dbVars' # dbVars
                    => role \in KnownRoles \ {"viewer"}]_vars

\* C25 case: a reviewer has changed the status and the approval decision
\* and saved them; a reviewer holds neither ADD_SYSTEM nor DELETE_SYSTEM.
C25_Witness ==
    /\ last.op = "update_aia"
    /\ sessions[last.session].current_user.role = "reviewer"
    /\ 1 \in DOMAIN ai_systems
    /\ ai_systems[1].aia_status = "Review"
    /\ json_loads(ai_systems[1].aia_data).approvals.approver.decision
          = AppDecision

(***************************************************************************)
(* SpecScenario: a new record is scored 3 in every dimension, then 5       *)
(***************************************************************************)

\* The scores of the scenario.
MidScore == 3
TopScore == 5

\* Every dimension of the record has the score n.
AllScored(n) == \A d \in DOMAIN dimensions : dimensions[d].score = n

\* One dimension has the score m and every other one the score n.
OneScored(m, n) ==
    \E d \in DOMAIN dimensions :
        /\ dimensions[d].score = m
        /\ \A e \in (DOMAIN dimensions) \ {d} : dimensions[e].score = n

\* A dimension not yet scored is scored 3.
ScoreMid ==
    \E d \in DimensionNames, now \in Now :
        /\ dimensions[d].score = 0
        /\ set_dimension_score(d, PyInt(MidScore), "moderate", now)

\* Once no dimension is left at 0, a dimension at 3 is scored 5.
ScoreTop ==
    \E d \in DimensionNames, now \in Now :
        /\ \A e \in DimensionNames : dimensions[e].score # 0
        /\ dimensions[d].score = MidScore
        /\ set_dimension_score(d, PyInt(TopScore), "worst case", now)

NextScenario ==
    \/ ScoreMid /\ UNCHANGED << calls, envVars >>
    \/ ScoreTop /\ UNCHANGED << calls, envVars >>

SpecScenario == Init /\ [][NextScenario]_vars

\* C26: with every score at 3 the record has total 39 and category High;
\* with one score at 5 and the others at 3, total 41 and category Severe;
\* with every score at 0, total 0 and Low; with every score at 5, total 65
\* and Severe.
C26_ScoringScenario ==
    /\ AllScored(MidScore)
          => total_score = 39 /\ risk_category.category = "High"
    /\ OneScored(TopScore, MidScore)
          => total_score = 41 /\ risk_category.category = "Severe"
    /\ AllScored(0) => total_score = 0 /\ risk_category.category = "Low"
    /\ AllScored(TopScore)
          => total_score = 65 /\ risk_category.category = "Severe"

\* C26 case: after all 13 dimensions were scored 3, set_dimension_score has
\* scored one of them 5.
C26_Witness ==
    /\ Succeeded("set_dimension_score")
    /\ OneScored(TopScore, MidScore)
    /\ total_score = 41
    /\ risk_category = [category |-> "Severe", action |-> RISK_CATEGORIES[4].action]

\* C27: update_aia of an object whose system_id has no row returns without
\* raising and leaves the register as it was; an id that was given out and
\* has no row gets none again, whatever add_system is called in between,
\* because add_system numbers a new row above every id given out before.
C27_StaleSaveHarmless ==
    /\ [][last'.op = "update_aia" =>
            LET obj == sessions[last'.session].current_aia.aia
            IN  obj.system_id \notin DOMAIN ai_systems
                   => /\ last'.outcome = "ok"
                      /\ UNCHANGED dbVars]_vars
    /\ [][/\ \A id \in (1..sqlite_sequence) \ DOMAIN ai_systems :
                id \notin DOMAIN ai_systems'
          /\ \A id \in (DOMAIN ai_systems') \ DOMAIN ai_systems :
                id > sqlite_sequence /\ id <= sqlite_sequence']_vars
    /\ [](DOMAIN ai_systems \subseteq 1..sqlite_sequence)

\* C27 case: the reviewer had system 1 on the edit page with a changed
\* purpose; the admin deleted it and added a system; the reviewer has saved,
\* and the register holds the new row alone, as add_system made it.
C27_Witness ==
    /\ last.op = "update_aia"
    /\ last.session = "B"
    /\ last.outcome = "ok"
    /\ sessions["B"].current_aia.aia.system_id = 1
    /\ sessions["B"].current_aia.aia.system_purpose = AppPurpose
    /\ DOMAIN ai_systems = {2}
    /\ json_loads(ai_systems[2].aia_data).system_purpose = ""
    /\ ai_systems[2].system_id = 2

\* The mutators that raise ValueError on a bad argument or an unknown id.
RaisingMutators ==
    {"set_dimension_score", "set_aia_status", "set_related_assessment_status",
     "update_mitigation_item", "remove_mitigation_item"}

\* C28: a call of set_dimension_score, set_aia_status,
\* set_related_assessment_status, update_mitigation_item or
\* remove_mitigation_item that raises ValueError leaves every field of the
\* record as it was: scores and justifications, the plan and its order, the
\* statuses, total_score, risk_category and last_modified_date.
C28_FailedMutatorChangesNothing ==
    [][(last'.outcome = "ValueError" /\ last'.op \in RaisingMutators)
          => UNCHANGED << recordVars, uuid_count >>]_vars

\* C28 case: remove_mitigation_item has raised for an id that no item of a
\* plan of two carries.
C28_Witness ==
    /\ Failed("remove_mitigation_item")
    /\ Len(mitigation_plan) = 2
    /\ mitigation_plan[1].id # mitigation_plan[2].id

\* C29: set_aia_status has no transition order. In every state of the record,
\* whatever its status, its approvals, its total_score and its
\* risk_category, a call with any of the five statuses can be made and
\* succeeds, storing that status (the current one included); a call with a
\* value outside the five raises ValueError, and never succeeds.
C29_NoTransitionOrdering ==
    /\ \A status \in FiveAiaStatuses :
          ENABLED (/\ set_aia_status(status, last_modified_date)
                   /\ last'.outcome = "ok"
                   /\ aia_status' = status)
    /\ \A status \in AiaStatusArgs \ FiveAiaStatuses :
          /\ ENABLED (/\ set_aia_status(status, last_modified_date)
                      /\ last'.outcome = "ValueError")
          /\ ~ ENABLED (/\ set_aia_status(status, last_modified_date)
                        /\ last'.outcome = "ok")

\* C29 case: the record was set to Draft, the status it began with, by a call
\* made after an approver's decision Approved was recorded and a dimension
\* was scored.
C29_Witness ==
    /\ Succeeded("set_aia_status")
    /\ aia_status = "Draft"
    /\ total_score > 0
    /\ \E r \in DOMAIN approvals : DictGet(approvals[r], "decision", "") = "Approved"

\* The columns of a row that the listing reads agree with the snapshot that
\* the row stores.
ColumnsAgree(row) ==
    LET aia_data == json_loads(row.aia_data)
    IN  /\ row.aia_status = aia_data.aia_status
        /\ row.risk_category = aia_data.risk_category.category
        /\ row.total_score = aia_data.total_score
        /\ row.system_name = aia_data.system_name
        /\ row.agency_name = aia_data.agency_name
        /\ row.last_modified_date = aia_data.last_modified_date

\* C30: after any sequence of add_system, update_aia and delete_system, with
\* any changes of the record in between, every row of the register has the
\* columns aia_status, risk_category, total_score, system_name, agency_name
\* and last_modified_date equal to the values of its stored snapshot
\* (risk_category to the snapshot's risk_category.category); and
\* get_aia_object(id) of a row of the register returns an object whose
\* system_id is id.
C30_ListingAgreesWithSnapshot ==
    /\ [](\A id \in DOMAIN ai_systems : ColumnsAgree(ai_systems[id]))
    /\ [][\A id \in DOMAIN ai_systems :
             get_aia_object(id) => (last'.ret = AiaObject /\ system_id' = id)]_vars

\* C30 case: update_aia has written row 1 from a record that was read from
\* it, scored 5 on one dimension and set to Review; the row shows the new
\* status and total, as its snapshot does.
C30_Witness ==
    /\ Succeeded("update_aia")
    /\ 1 \in DOMAIN ai_systems
    /\ ai_systems[1].aia_status = "Review"
    /\ ai_systems[1].total_score = 5
    /\ json_loads(ai_systems[1].aia_data).total_score = 5
    /\ ColumnsAgree(ai_systems[1])


============================================================================
